---- MODULE Spec2Model ----
(***************************************************************************)
(* hobo (msolo/hobo): the "start" and "fetch" commands of src/hobo.go.     *)
(*                                                                         *)
(* Every hobo invocation is an operating system process; the processes     *)
(* share the cache directory (<HoboDir>/cache/boxcars), the instance       *)
(* directory (<HoboDir>/vms/<Name>.vmwarevm), the hypervisor and the       *)
(* clock.  Each action below is one step of runStart, runFetch or runClone *)
(* between two accesses to that shared state.  A third specification,     *)
(* ResolveSpec, has one invocation that asks for the address of the guest  *)
(* of an instance with a metadata record; a fourth, AcquireSpec, follows   *)
(* one invocation through vm.start, getIpAddr and waitForSsh, second by    *)
(* second; RmSpec is one "hobo rm"; KeySpec has the runs of runClone, for   *)
(* any instances, at the shared bootstrap key; TemplateSpec has the runs   *)
(* of the pipeline over a template reference that the operator edits;      *)
(* CommandSpec is one stop, suspend, ip-addr, ssh, ssh-config or rm;       *)
(* RecordSpec writes one metadata record and reads it back; MakeSpec is    *)
(* the compression of make-boxcar with its two processes; ConfigSpec is    *)
(* main up to the command, with the configuration it finds and reads.      *)
(***************************************************************************)
EXTENDS Integers, Sequences, FiniteSets, TLC

(***************************************************************************)
(* Bounds of the model.                                                    *)
(***************************************************************************)
MaxRuns == 2        \* hobo invocations in one behaviour
MaxBlocks == 3      \* lease blocks in vmnet-dhcpd-vmnet8.leases
MaxPolls == 3       \* scans of the lease file by one getIpAddrFromVmdhcp
MaxTimeout == 3     \* the -timeout flag, in seconds
MaxKeyRuns == 3     \* runs of runClone that come to the bootstrap key
MaxEdits == 2       \* edits of the template reference in the .hobo file
MaxData == 3        \* blocks tar has to write
PipeCap == 1        \* blocks a pipe holds

Procs == {"p1", "p2"}          \* concurrently running hobo processes
Runs == 1..MaxRuns
Clock == 1..MaxRuns            \* readings of time.Now(): at most one per invocation
Inodes == 1..(MaxRuns + 1)     \* one per os.Create plus the initial archive

(***************************************************************************)
(* File contents and crypto/sha256.                                        *)
(* A file is a sequence of chunks; chunk 0 is what a hole reads as.        *)
(* sha256 is modelled as an injective function of the chunk sequence,      *)
(* computed incrementally as hash.Hash.Write does.                         *)
(***************************************************************************)
Chunks == {0, 1, 2, 3}
HashBase == Cardinality(Chunks) + 1

HasherWrite(h, b) == h * HashBase + b + 1

RECURSIVE Sha256(_)
Sha256(s) == IF s = <<>> THEN 0
             ELSE HasherWrite(Sha256(SubSeq(s, 1, Len(s) - 1)), s[Len(s)])

\* The bytes the boxcar author published, and cfg.Boxcar.Sha256 of the .hobo file.
BoxcarBytes == <<1, 2>>
BoxcarSha256 == Sha256(BoxcarBytes)

\* What a GET of cfg.Boxcar.Url can deliver: the published bytes or other bytes.
Bodies == {BoxcarBytes, <<1, 3>>}

\* What may lie at the canonical archive path before the first invocation:
\* nothing, an intact archive, a truncated one, a damaged one.
InitialArchives == {<<>>, BoxcarBytes, <<1>>, <<3, 2>>}

\* File.Write at an offset (1-based chunk index): overwrite, append, or
\* zero-fill the hole between the end of the file and the offset.
RECURSIVE Zeros(_)
Zeros(n) == IF n <= 0 THEN <<>> ELSE <<0>> \o Zeros(n - 1)

WriteAt(data, off, b) ==
    IF off <= Len(data) THEN [data EXCEPT ![off] = b]
    ELSE data \o Zeros(off - Len(data) - 1) \o <<b>>

(***************************************************************************)
(* Names.                                                                  *)
(***************************************************************************)
Sentinel == "hobo-bootstrap-ok"

\* Standard output of the bootstrap session, as lines: the sentinel echo of
\* bootstrapBashScript, a blank line, or any other line.
Outs == {<<>>, <<Sentinel>>, <<"other">>, <<Sentinel, "">>, <<"", "other", Sentinel>>,
         <<Sentinel, "other">>, <<Sentinel, "other", "">>}

\* strings.TrimSpace on the whole output drops the blank lines at both ends.
RECURSIVE TrimSpace(_)
TrimSpace(out) ==
    IF out = <<>> THEN out
    ELSE IF out[1] = "" THEN TrimSpace(Tail(out))
    ELSE IF out[Len(out)] = "" THEN TrimSpace(SubSeq(out, 1, Len(out) - 1))
    ELSE out

\* outlines := strings.Split(strings.TrimSpace(string(out)), "\n"): splitting the
\* empty string gives one empty line.
Outlines(out) == IF TrimSpace(out) = <<>> THEN <<"">> ELSE TrimSpace(out)

\* The session printed the sentinel as its last non-blank line.
EndsWithSentinel(out) ==
    \E i \in 1..Len(out) : out[i] = Sentinel /\ \A j \in (i + 1)..Len(out) : out[j] = ""
IpAddrs == {"", "ip1"}      \* trimmed output of getGuestIPAddress

\* Files below vmPath: the descriptor, the other files vmrun clone writes,
\* the instance key pair, and hobo/config.json.
VmFiles == {"vmx", "vmdk", "sshId", "sshIdPub", "configFile"}

VARIABLES
    now,                \* the last reading of time.Now(), 0 = none yet
    nruns,              \* invocations so far
    archive,            \* inode at archivePath(), 0 = no such file
    tmpFiles,           \* inode at ".<archive>-<nanos>" per nanos, 0 = no such file
    inodeData,          \* content of every inode
    archiveBy,          \* "none" | "external" | "fetch": who put the file at archivePath()
    boxcarUnpackFile,   \* <boxcars>/<Boxcar.Name>.vmwarevm/.hobo-unpacked exists
    boxcarVmxFile,      \* <boxcars>/<Boxcar.Name>.vmwarevm/<Boxcar.Name>.vmx exists
    boxcarHasVmx,       \* the published archive contains that descriptor
    vmPath,             \* per file below vmPath: the run that created it, 0 = absent
    vmConfig,           \* the document in hobo/config.json
    vmRunning,          \* the hypervisor runs the instance's .vmx
    bootstrapSshId,     \* <HoboDir>/hobo-bootstrap-insecure exists
    sentinelRuns,       \* runs whose bootstrap session printed the sentinel last
    proc,               \* per process: its local state
    leaseFile,          \* /var/db/vmware/vmnet-dhcpd-vmnet8.leases
    res,                \* the invocation that resolves the guest's address
    acq,                \* the invocation that waits for the guest's ssh port
    rmv,                \* the invocation of "hobo rm"
    key,                \* <HoboDir>/hobo-bootstrap-insecure and the runs that use it
    tpl,                \* the template reference, its cached archives, its unpacked directory
    cmd,                \* one invocation of a command on an instance, from main on
    mk,                 \* the tar and pigz processes of make-boxcar and their pipe
    doc,                \* a metadata record on its way through writeConfig and readConfig
    cf                  \* main finding and reading the configuration

vars == <<now, nruns, archive, tmpFiles, inodeData, archiveBy,
          boxcarUnpackFile, boxcarVmxFile, boxcarHasVmx, vmPath, vmConfig,
          vmRunning, bootstrapSshId, sentinelRuns, proc, leaseFile, res, acq, rmv, key, tpl,
          cmd, mk, doc, cf>>

cacheVars == <<archive, tmpFiles, inodeData, archiveBy>>
boxcarVars == <<boxcarUnpackFile, boxcarVmxFile, boxcarHasVmx>>
vmVars == <<vmPath, vmConfig, vmRunning, bootstrapSshId, sentinelRuns>>
resVars == <<leaseFile, res>>
pipeVars == <<now, nruns, cacheVars, boxcarVars, vmVars, proc>>

(***************************************************************************)
(* Local state of a process.                                               *)
(***************************************************************************)
NoProc == [pc |-> "idle", cmd |-> "none", run |-> 0, exit |-> "none",
           nanos |-> 0, fd |-> 0, woff |-> 0, hasher |-> 0, body |-> <<>>,
           ipAddr |-> "", ran |-> FALSE, runErr |-> FALSE, sentinel |-> FALSE,
           stages |-> <<>>, stageErr |-> "none", gets |-> 0,
           prior |-> {}, archiveAtStat |-> FALSE, cachedBad |-> FALSE,
           cfgAtGuard |-> FALSE, vmxAtGuard |-> FALSE, purged |-> FALSE,
           saidRunning |-> FALSE, digests |-> <<>>, extracted |-> FALSE,
           readErr |-> "none"]

Goto(st, l) == [st EXCEPT !.pc = l]

\* A stage of the pipeline begins.
Stage(st, s) == [st EXCEPT !.stages = Append(@, s)]

\* The process is gone: its descriptors are closed, its memory is released.
Exited(st) == [st EXCEPT !.pc = "idle", !.fd = 0, !.nanos = 0, !.woff = 0,
                         !.hasher = 0, !.ipAddr = ""]

\* log.Fatalf: the message, then os.Exit(1); deferred functions do not run.
Fatalf(st, msg) == [Exited(st) EXCEPT !.exit = msg]

\* log.Fatalf("failed to fetch: signature mismatch %s != %s",
\* cfg.Boxcar.Sha256, sha256sum): the two digests of the message.
SignatureMismatch(st, sum) ==
    Fatalf([st EXCEPT !.stageErr = "fetch", !.digests = <<BoxcarSha256, sum>>],
           "failed to fetch: signature mismatch")

\* The external program or system call of stage s failed.
StageFailed(st, s, msg) == Fatalf([st EXCEPT !.stageErr = s], msg)

\* main returns.
Return(st) == [Exited(st) EXCEPT !.exit = "ok"]

\* A return a careless edit could produce: runStart goes on past the guard of
\* runClone.
fetchReturnPastGuard(st) ==
    IF st.cmd = "fetch" THEN [Exited(st) EXCEPT !.exit = "ok"]
    ELSE [st EXCEPT !.pc = "cloneUnpack", !.fd = 0, !.nanos = 0, !.woff = 0,
                    !.hasher = 0, !.body = <<>>, !.cachedBad = FALSE,
                    !.gets = 0, !.archiveAtStat = FALSE]

\* runFetch returns: to main for "hobo fetch", to runStart otherwise.
fetchReturn(st) ==
    IF st.cmd = "fetch" THEN Return(st)
    ELSE [st EXCEPT !.pc = "runClone", !.fd = 0, !.nanos = 0, !.woff = 0,
                    !.hasher = 0, !.body = <<>>, !.cachedBad = FALSE,
                    !.gets = 0, !.archiveAtStat = FALSE]

Set(p, st) == proc' = [proc EXCEPT ![p] = st]

Linked(i) == i = archive \/ \E n \in Clock : tmpFiles[n] = i
Held(i) == \E q \in Procs : proc[q].fd = i

\* unlink(2), rename(2), close(2) and exit: an inode lives as long as a name
\* or an open descriptor refers to it.  The content after a step in which p
\* closes its descriptor, with arch at the archive path and tmps at the
\* temporary names.
Reclaim(data, arch, tmps, p) ==
    [i \in Inodes |->
        IF \/ i = arch
           \/ \E n \in Clock : tmps[n] = i
           \/ \E q \in Procs \ {p} : proc[q].fd = i
        THEN data[i] ELSE <<>>]
FreeInodes == {i \in Inodes : ~Linked(i) /\ ~Held(i)}
NewInode == CHOOSE i \in FreeInodes : \A j \in FreeInodes : i <= j

ActiveRuns == {proc[q].run : q \in {r \in Procs : proc[r].pc # "idle"}}

\* The entry a new process takes: of the free ones, the one whose last
\* invocation is the oldest.
IdleProcs == {q \in Procs : proc[q].pc = "idle"}
NextProc == CHOOSE q \in IdleProcs : \A r \in IdleProcs : proc[q].run <= proc[r].run

ArchiveData == IF archive = 0 THEN <<>> ELSE inodeData[archive]

\* No lease file, and no invocation that resolves an address.
NoLeaseFile == [readable |-> FALSE, blocks |-> <<>>]
NoRes == [pc |-> "idle", op |-> "none", exit |-> "none", deadline |-> 0,
          elapsed |-> 0, macAddr |-> "", ipAddr |-> "", err |-> "nil",
          tools |-> 0, scans |-> 0, fallback |-> FALSE, used |-> "none"]

\* No invocation that waits for the ssh port.
NoAcq == [pc |-> "idle", caller |-> "none", exit |-> "none", time |-> 0,
          ctxDeadline |-> 0, deadline |-> 0, ok |-> "none", ipAddr |-> "",
          called |-> 0, dials |-> 0, lastDial |-> 0, err |-> "none",
          fallback |-> FALSE, toolsErr |-> "none", toolsAddr |-> "none", calls |-> {}]

\* No "hobo rm".
NoRm == [pc |-> "idle", exit |-> "none", stdin |-> "none", reply |-> "",
         promptErr |-> "none", running |-> FALSE, listErr |-> "none",
         stopErr |-> "none", lists |-> 0, stops |-> 0, hard |-> FALSE,
         before |-> <<>>, listedAtRemove |-> "none"]

\* No bootstrap key file and no run at it.  A run is at a step of
\* hobo.go:804-830, has seen the file or not, and has handed the file, as it
\* then was, to ssh and to scp.
NoKey == [file |-> "absent", writes |-> 0, runs |-> 0,
          run |-> [p \in Procs |-> [pc |-> "idle", exit |-> "none", statErr |-> "none",
                                    ssh |-> "none", scp |-> "none"]]]

\* The references a .hobo file can declare under the one Boxcar.Name: two
\* hosts serve an archive of the same file name, and there is a second file.
Urls == {"http://a/box-1.txz", "http://b/box-1.txz", "http://a/box-2.txz"}
Sha256s == {"s1", "s2"}

\* The template is declared, nothing is cached, nothing is unpacked.
\* The variables of the single commands.
restVars == <<cmd, mk, doc, cf>>

\* No command was invoked.
NoCmd == [pc |-> "idle", op |-> "none", exit |-> "none", readErr |-> "none",
          invoked |-> {}, before |-> <<>>]

\* main not begun.  A path is the sequence of its elements, the empty
\* sequence the empty string.
NoCf == [pc |-> "idle", exit |-> "none", name |-> "none",
         configFile |-> <<>>, hoboDir |-> <<>>, exists |-> {},
         content |-> [valid |-> TRUE, set |-> FALSE, HoboDir |-> <<>>], tools |-> TRUE,
         cfgFname |-> <<>>, read |-> <<>>, HoboDir |-> <<>>]

\* No make-boxcar.  A pipe is what it holds and which of its ends are open.
NoPipe == [buf |-> 0, wOpen |-> FALSE, rOpen |-> FALSE]
NoMk == [pc |-> "idle", exit |-> "none", err |-> "none",
         go |-> "none", goErr |-> "none",
         pigz |-> "none", pigzStatus |-> 0,
         tar |-> "none", tarStatus |-> 0, left |-> 0,
         copy |-> "none", copyErr |-> "nil", held |-> 0,
         stdin |-> NoPipe, stdout |-> NoPipe, out |-> 0]

\* No record under way.
NoDoc == [pc |-> "idle", name |-> <<>>, w |-> <<>>, have |-> "none", file |-> <<>>,
          r |-> <<>>, err |-> "none"]

NoTpl == [ref |-> [Url |-> "http://a/box-1.txz", Sha256 |-> "s1"],
          edits |-> 0,
          cache |-> [b \in {"box-1.txz", "box-2.txz"} |-> "none"],
          template |-> "none", marker |-> FALSE, stale |-> FALSE,
          pc |-> "idle", exit |-> "none", extracted |-> FALSE]

Init ==
    /\ now = 0
    /\ nruns = 0
    /\ \E a \in InitialArchives :
          /\ archive = IF a = <<>> THEN 0 ELSE 1
          /\ inodeData = [i \in Inodes |-> IF i = 1 THEN a ELSE <<>>]
          /\ archiveBy = IF a = <<>> THEN "none" ELSE "external"
    /\ tmpFiles = [n \in Clock |-> 0]
    /\ boxcarUnpackFile = FALSE
    /\ boxcarVmxFile = FALSE
    /\ boxcarHasVmx \in BOOLEAN
    /\ vmPath = [f \in VmFiles |-> 0]
    /\ vmConfig = [TimeBootstrapped |-> 0, IpAddr |-> ""]
    /\ vmRunning = FALSE
    /\ bootstrapSshId = FALSE
    /\ sentinelRuns = {}
    /\ proc = [p \in Procs |-> NoProc]
    /\ leaseFile = NoLeaseFile
    /\ res = NoRes
    /\ acq = NoAcq
    /\ rmv = NoRm
    /\ key = NoKey
    /\ tpl = NoTpl
    /\ cmd = NoCmd /\ mk = NoMk /\ cf = NoCf /\ doc = NoDoc

(***************************************************************************)
(* main: a new hobo process runs cmd.Run.                                  *)
(***************************************************************************)
main(p, c) ==
    /\ proc[p].pc = "idle"
    /\ p = NextProc
    /\ nruns < MaxRuns
    /\ nruns' = nruns + 1
    /\ Set(p, [NoProc EXCEPT !.cmd = c, !.run = nruns + 1, !.exit = "running",
                             !.prior = (1..nruns) \ ActiveRuns,
                             !.pc = IF c = "start" THEN "runStart" ELSE "runFetch"])
    /\ UNCHANGED <<now, cacheVars, boxcarVars, vmVars>>

\* hobo start
cmdStart(p) == main(p, "start")

\* hobo fetch
cmdFetch(p) == main(p, "fetch")

(***************************************************************************)
(* runFetch                                                                *)
(***************************************************************************)
\* archive, tmpArchivePath: the temporary name is made from
\* time.Now().UnixNano().  The clock does not go back, and the program only
\* distinguishes equal readings from different ones: a reading is the last
\* one again or the next value.
runFetch(p) ==
    /\ proc[p].pc = "runFetch"
    /\ \E t \in Clock \cap {now, now + 1} :
          /\ now' = t
          /\ Set(p, Goto(Stage([proc[p] EXCEPT !.nanos = t], "fetch"), "fetchStat"))
    /\ UNCHANGED <<nruns, cacheVars, boxcarVars, vmVars>>

\* os.Stat(archive), then os.Open(archive) or os.MkdirAll(boxcarsDir).
fetchStat(p) ==
    /\ proc[p].pc = "fetchStat"
    /\ \/ /\ archive # 0
          /\ \/ Set(p, Goto([proc[p] EXCEPT !.fd = archive, !.archiveAtStat = TRUE],
                           "fetchVerifyCached"))
             \/ Set(p, StageFailed([proc[p] EXCEPT !.archiveAtStat = TRUE], "fetch",
                                   "failed to fetch: open"))
       \/ /\ archive = 0
          /\ \/ Set(p, Goto(proc[p], "fetchCreate"))
             \/ Set(p, StageFailed(proc[p], "fetch", "failed: mkdir"))
    /\ UNCHANGED <<now, nruns, cacheVars, boxcarVars, vmVars>>

\* Wrong comparisons a careless edit could make: accept any cached file;
\* reject the file that matches.
CachedDigestAny(sum) == TRUE
CachedDigestInverted(sum) == sum # BoxcarSha256

\* cfg.Boxcar.Sha256 != sha256sum, for the cached file.
CachedDigestOk(sum) == sum = BoxcarSha256

\* io.Copy(hasher, fin) over the cached file; on mismatch os.Remove(archive).
fetchVerifyCached(p) ==
    /\ proc[p].pc = "fetchVerifyCached"
    /\ \/ /\ Set(p, StageFailed(proc[p], "fetch", "failed to fetch: read"))
          /\ inodeData' = Reclaim(inodeData, archive, tmpFiles, p)
          /\ UNCHANGED <<archive, tmpFiles, archiveBy>>
       \/ LET sha256sum == Sha256(inodeData[proc[p].fd])
              st == [proc[p] EXCEPT !.cachedBad = (inodeData[proc[p].fd] # BoxcarBytes)] IN
          IF CachedDigestOk(sha256sum)
          THEN /\ Set(p, fetchReturn(st))
               /\ inodeData' = Reclaim(inodeData, archive, tmpFiles, p)
               /\ UNCHANGED <<archive, tmpFiles, archiveBy>>
          ELSE /\ archive' = 0
               /\ archiveBy' = "none"
               /\ inodeData' = Reclaim(inodeData, 0, tmpFiles, p)
               /\ UNCHANGED tmpFiles
               /\ Set(p, SignatureMismatch(st, sha256sum))
    /\ UNCHANGED <<now, nruns, boxcarVars, vmVars>>

\* cl.Get(cfg.Boxcar.Url) and the status check, with fout open on inode i.
fetchGet(p, i) ==
    LET st == [proc[p] EXCEPT !.fd = i, !.woff = 1, !.hasher = 0, !.gets = @ + 1] IN
    /\ \/ Set(p, StageFailed(st, "fetch", "failed to fetch: get"))
       \/ Set(p, StageFailed(st, "fetch", "failed to fetch: status"))
       \/ \E b \in Bodies : Set(p, Goto([st EXCEPT !.body = b], "fetchCopy"))

\* os.Create(tmpArchivePath): O_CREATE|O_TRUNC on the temporary name; then the
\* request, which touches nothing that another process sees.
fetchCreate(p) ==
    /\ proc[p].pc = "fetchCreate"
    /\ LET n == proc[p].nanos IN
       \/ /\ Set(p, StageFailed(proc[p], "fetch", "create"))
          /\ UNCHANGED cacheVars
       \/ /\ tmpFiles[n] # 0
          /\ inodeData' = [inodeData EXCEPT ![tmpFiles[n]] = <<>>]
          /\ fetchGet(p, tmpFiles[n])
          /\ UNCHANGED <<archive, tmpFiles, archiveBy>>
       \/ /\ tmpFiles[n] = 0
          /\ FreeInodes # {}
          /\ tmpFiles' = [tmpFiles EXCEPT ![n] = NewInode]
          /\ inodeData' = [inodeData EXCEPT ![NewInode] = <<>>]
          /\ fetchGet(p, NewInode)
          /\ UNCHANGED <<archive, archiveBy>>
    /\ UNCHANGED <<now, nruns, boxcarVars, vmVars>>

\* io.Copy(wr, resp.Body): one chunk to fout and to the hasher, or an error.
fetchCopy(p) ==
    /\ proc[p].pc = "fetchCopy"
    /\ LET st == proc[p] IN
       \/ /\ Set(p, StageFailed(st, "fetch", "failed to fetch: copy"))
          /\ inodeData' = Reclaim(inodeData, archive, tmpFiles, p)
       \/ /\ st.woff <= Len(st.body)
          /\ inodeData' = [inodeData EXCEPT ![st.fd] = WriteAt(@, st.woff, st.body[st.woff])]
          /\ Set(p, [st EXCEPT !.woff = @ + 1,
                               !.hasher = HasherWrite(@, st.body[st.woff]),
                               !.pc = IF st.woff = Len(st.body) THEN "fetchInstall" ELSE "fetchCopy"])
    /\ UNCHANGED <<now, nruns, archive, tmpFiles, archiveBy, boxcarVars, vmVars>>

\* A comparison a careless edit could make: install whatever was downloaded.
DownloadDigestAny(sum) == TRUE

\* cfg.Boxcar.Sha256 != sha256sum, for the downloaded bytes.
DownloadDigestOk(sum) == sum = BoxcarSha256

\* fout.Sync(), fout.Close(), the digest check, then os.Remove(tmpArchivePath)
\* or os.Rename(tmpArchivePath, archive).
fetchInstall(p) ==
    /\ proc[p].pc = "fetchInstall"
    /\ LET n == proc[p].nanos
           sha256sum == proc[p].hasher IN
       \/ /\ inodeData' = Reclaim(inodeData, archive, tmpFiles, p)
          /\ UNCHANGED <<archive, tmpFiles, archiveBy>>
          /\ Set(p, StageFailed(proc[p], "fetch", "failed to fetch: sync"))
       \/ /\ ~DownloadDigestOk(sha256sum)
          /\ tmpFiles' = [tmpFiles EXCEPT ![n] = 0]
          /\ inodeData' = Reclaim(inodeData, archive, [tmpFiles EXCEPT ![n] = 0], p)
          /\ UNCHANGED <<archive, archiveBy>>
          /\ Set(p, SignatureMismatch(proc[p], sha256sum))
       \/ /\ DownloadDigestOk(sha256sum)
          /\ tmpFiles[n] # 0
          /\ archive' = tmpFiles[n]
          /\ archiveBy' = "fetch"
          /\ tmpFiles' = [tmpFiles EXCEPT ![n] = 0]
          /\ inodeData' = Reclaim(inodeData, tmpFiles[n], [tmpFiles EXCEPT ![n] = 0], p)
          /\ Set(p, Goto([proc[p] EXCEPT !.fd = 0], "fetchDeferred"))
       \/ /\ DownloadDigestOk(sha256sum)
          /\ inodeData' = Reclaim(inodeData, archive, tmpFiles, p)
          /\ UNCHANGED <<archive, tmpFiles, archiveBy>>
          /\ Set(p, StageFailed(proc[p], "fetch", "failed to fetch: rename"))
    /\ UNCHANGED <<now, nruns, boxcarVars, vmVars>>

\* runFetch returns: the deferred os.Remove(tmpArchivePath) runs.
fetchDeferred(p) ==
    /\ proc[p].pc = "fetchDeferred"
    /\ LET n == proc[p].nanos IN
       /\ tmpFiles' = [tmpFiles EXCEPT ![n] = 0]
       /\ inodeData' = Reclaim(inodeData, archive, [tmpFiles EXCEPT ![n] = 0], p)
    /\ Set(p, fetchReturn(proc[p]))
    /\ UNCHANGED <<now, nruns, archive, archiveBy, boxcarVars, vmVars>>

(***************************************************************************)
(* runStart, before and after the provisioning pipeline.                   *)
(***************************************************************************)
\* A read a careless edit could produce: the record is never found.
readInstanceForNameMissing(v) == {"ENOENT"}

\* readInstanceForName: what ioutil.ReadFile and json.Unmarshal can answer
\* for the metadata file as it is: no error, no such file, or another error
\* (a file that cannot be read or parsed).
readInstanceForName(v) == IF v["configFile"] = 0 THEN {"ENOENT"} ELSE {"nil", "EIO"}

\* A test a careless edit could produce: provision on any error.
IsNotExistAnyError(err) == err # "nil"

\* os.IsNotExist(err)
IsNotExist(err) == err = "ENOENT"

\* vm, err := readInstanceForName(cfg.AppConfig, cfg.Name), and the branch on
\* os.IsNotExist(err).
runStart(p) ==
    /\ proc[p].pc = "runStart"
    /\ \E err \in readInstanceForName(vmPath) :
          LET st == [proc[p] EXCEPT !.readErr = err] IN
          IF IsNotExist(err)
          THEN Set(p, Goto(st, "runFetch"))
          ELSE IF err # "nil"
               THEN Set(p, Fatalf(st, "failed reading config"))
               ELSE Set(p, Goto([st EXCEPT !.ipAddr = vmConfig.IpAddr], "startVm"))
    /\ UNCHANGED <<now, nruns, cacheVars, boxcarVars, vmVars>>

\* The second readInstanceForName, after runClone returned.
startReread(p) ==
    /\ proc[p].pc = "startReread"
    /\ IF vmPath["configFile"] = 0
       THEN Set(p, Fatalf(proc[p], "failed reading config"))
       ELSE Set(p, Goto([proc[p] EXCEPT !.ipAddr = vmConfig.IpAddr], "startVm"))
    /\ UNCHANGED <<now, nruns, cacheVars, boxcarVars, vmVars>>

\* vm.start() of runStart, then vm.getIpAddr() (the recorded address, else
\* the tools query), waitForSsh, and on a timeout getIpAddrFromVmtools: the
\* run ends with the instance reachable, or with a failed tools query.
startVm(p) ==
    /\ proc[p].pc = "startVm"
    /\ \/ /\ vmPath["vmx"] # 0
          /\ vmRunning' = TRUE
          /\ \/ Set(p, Return(proc[p]))
             \/ Set(p, Fatalf(proc[p], "failed starting"))
       \/ /\ UNCHANGED vmRunning
          /\ Set(p, Fatalf(proc[p], "failed starting"))
    /\ UNCHANGED <<now, nruns, cacheVars, boxcarVars,
                   vmPath, vmConfig, bootstrapSshId, sentinelRuns>>

(***************************************************************************)
(* runClone                                                                *)
(***************************************************************************)
\* A guard a careless edit could produce: never see the metadata file.
ConfigExistsMutant(v) == FALSE

\* os.Stat(vm.vmConfig.configFile) succeeds.
ConfigExists(v) == v["configFile"] # 0

\* A lock a careless edit could produce: it is granted only while no other
\* run is between its own lock and the end of its unpacking.
lockExclusive(p) ==
    \A q \in Procs \ {p} : proc[q].pc \notin {"cloneUnpack", "cloneTar", "cloneMarker"}

\* vm.lock(): "FIXME(msolo) Implement locking", return nil.
lock(p) == TRUE

\* "We only write the config once we are completely bootstrapped."
runClone(p) ==
    /\ proc[p].pc = "runClone"
    /\ LET st == Stage([proc[p] EXCEPT !.cfgAtGuard = (vmPath["configFile"] # 0)], "guard") IN
       IF ConfigExists(vmPath)
       THEN Set(p, Fatalf(st, "cannot overwrite existing vm"))
       ELSE Set(p, Goto(st, "clonePurge"))
    /\ UNCHANGED <<now, nruns, cacheVars, boxcarVars, vmVars>>

\* A purge a careless edit could produce: remove the descriptor only.
RemoveAllMutant(v) == [v EXCEPT !["vmx"] = 0]

\* os.RemoveAll(vm.vmConfig.vmPath)
RemoveAll(v) == [f \in VmFiles |-> 0]

\* "If there is a .vmx file without a config ... Purge and start over.",
\* then os.MkdirAll(vmsDir) and vm.lock().
clonePurge(p) ==
    /\ proc[p].pc = "clonePurge"
    /\ LET st == [proc[p] EXCEPT !.vmxAtGuard = (vmPath["vmx"] # 0)] IN
       IF vmPath["vmx"] # 0
       THEN \/ /\ vmPath' = RemoveAll(vmPath)
               /\ \/ lock(p) /\ Set(p, Goto([st EXCEPT !.purged = TRUE], "cloneUnpack"))
                  \/ Set(p, StageFailed([st EXCEPT !.purged = TRUE], "guard", "failed cloning: mkdir"))
            \/ /\ UNCHANGED vmPath
               /\ Set(p, StageFailed(st, "guard", "cannot remove existing vm"))
       ELSE /\ UNCHANGED vmPath
            /\ \/ lock(p) /\ Set(p, Goto(st, "cloneUnpack"))
               \/ Set(p, StageFailed(st, "guard", "failed cloning: mkdir"))
    /\ UNCHANGED <<now, nruns, cacheVars, boxcarVars,
                   vmConfig, vmRunning, bootstrapSshId, sentinelRuns>>

\* A test a careless edit could produce: unpack whether or not the marker
\* is there.
NeedsUnpackAlways(marker) == TRUE

\* _, err := os.Stat(boxcarUnpackFile); err != nil
NeedsUnpack(marker) == ~marker

\* os.Stat(boxcarUnpackFile)
cloneUnpack(p) ==
    /\ proc[p].pc = "cloneUnpack"
    /\ Set(p, Goto(Stage(proc[p], "unpack"),
                   IF NeedsUnpack(boxcarUnpackFile) THEN "cloneTar" ELSE "cloneValidate"))
    /\ UNCHANGED <<now, nruns, cacheVars, boxcarVars, vmVars>>

\* runCmd("tar", "xJvf", archive, "-C", boxcarsDir): tar extracts what lies at
\* the archive path; a failed tar may have extracted part of it.
cloneTar(p) ==
    /\ proc[p].pc = "cloneTar"
    /\ \/ /\ archive # 0
          /\ Sha256(ArchiveData) = BoxcarSha256
          /\ boxcarVmxFile' = (boxcarVmxFile \/ boxcarHasVmx)
          /\ Set(p, Goto([proc[p] EXCEPT !.extracted = TRUE], "cloneMarker"))
       \/ /\ \E partial \in BOOLEAN :
                boxcarVmxFile' = (boxcarVmxFile \/ (partial /\ archive # 0 /\ boxcarHasVmx))
          /\ Set(p, StageFailed(proc[p], "unpack", "failed cloning: tar"))
    /\ UNCHANGED <<now, nruns, cacheVars, boxcarUnpackFile, boxcarHasVmx, vmVars>>

\* os.Create(boxcarUnpackFile)
cloneMarker(p) ==
    /\ proc[p].pc = "cloneMarker"
    /\ \/ /\ boxcarUnpackFile' = TRUE
          /\ Set(p, Goto(proc[p], "cloneValidate"))
       \/ /\ UNCHANGED boxcarUnpackFile
          /\ Set(p, StageFailed(proc[p], "unpack", "failed cloning: marker"))
    /\ UNCHANGED <<now, nruns, cacheVars, boxcarVmxFile, boxcarHasVmx, vmVars>>

\* A test a careless edit could produce: take the template for granted.
TemplateExistsAlways(vmx) == TRUE

\* _, err := os.Stat(boxcarVmxFile); err == nil
TemplateExists(vmx) == vmx

\* os.Stat(boxcarVmxFile)
cloneValidate(p) ==
    /\ proc[p].pc = "cloneValidate"
    /\ LET st == Stage(proc[p], "validate") IN
       IF TemplateExists(boxcarVmxFile) THEN Set(p, Goto(st, "cloneVmrun"))
       ELSE Set(p, StageFailed(st, "validate", "invalid boxcar, missing vmx file"))
    /\ UNCHANGED <<now, nruns, cacheVars, boxcarVars, vmVars>>

\* vmrun clone boxcarVmxFile vmxFile full: on success the descriptor and the
\* disks are below vmPath; a failed clone leaves behind any part of them.
cloneVmrun(p) ==
    /\ proc[p].pc = "cloneVmrun"
    /\ LET st == Stage(proc[p], "clone")
           r == proc[p].run IN
       \/ /\ vmPath["vmx"] = 0
          /\ vmPath' = [vmPath EXCEPT !["vmx"] = r, !["vmdk"] = r]
          /\ Set(p, Goto(st, "cloneKeygen"))
       \/ /\ \E left \in SUBSET {"vmx", "vmdk"} :
                vmPath' = [f \in VmFiles |-> IF f \in left /\ vmPath[f] = 0 THEN r ELSE vmPath[f]]
          /\ Set(p, StageFailed(st, "clone", "failed cloning"))
    /\ UNCHANGED <<now, nruns, cacheVars, boxcarVars,
                   vmConfig, vmRunning, bootstrapSshId, sentinelRuns>>

\* ssh-keygen -f vm.vmConfig.sshId: refuses to overwrite without a terminal.
cloneKeygen(p) ==
    /\ proc[p].pc = "cloneKeygen"
    /\ LET st == Stage(proc[p], "keygen")
           r == proc[p].run IN
       \/ /\ vmPath["sshId"] = 0
          /\ vmPath["vmx"] # 0
          /\ vmPath' = [vmPath EXCEPT !["sshId"] = r, !["sshIdPub"] = r]
          /\ Set(p, Goto(st, "cloneStart"))
       \/ /\ UNCHANGED vmPath
          /\ Set(p, StageFailed(st, "keygen", "failed bootstrap creating insecure key"))
    /\ UNCHANGED <<now, nruns, cacheVars, boxcarVars,
                   vmConfig, vmRunning, bootstrapSshId, sentinelRuns>>

\* vm.getIpAddr() of runClone (IpAddr is empty, so getIpAddrFromVmtools), then
\* waitForSsh and, on a timeout, getIpAddrFromVmtools again, whose address is
\* discarded.
cloneGetIpAddr(p, st0) ==
    LET st == Stage(st0, "address") IN
    \/ Set(p, StageFailed(st, "address", "failed bootstrap: address"))
    \/ Set(p, StageFailed(st, "address", "failed starting"))
    \/ \E a \in IpAddrs : Set(p, Goto([st EXCEPT !.ipAddr = a], "cloneInitialSsh"))

\* vm.start() of runClone; then the address of the guest, a query that
\* changes nothing another process sees.
cloneStart(p) ==
    /\ proc[p].pc = "cloneStart"
    /\ LET st == Stage(proc[p], "poweron") IN
       \/ /\ vmPath["vmx"] # 0
          /\ vmRunning' = TRUE
          /\ cloneGetIpAddr(p, st)
       \/ /\ UNCHANGED vmRunning
          /\ Set(p, StageFailed(st, "poweron", "failed bootstrap: start"))
    /\ UNCHANGED <<now, nruns, cacheVars, boxcarVars,
                   vmPath, vmConfig, bootstrapSshId, sentinelRuns>>

\* os.Stat(sshId), ioutil.WriteFile(sshId, bootstrapInsecurePrivateKey), then
\* ssh -i sshId hobo@ipAddr /bin/true
cloneInitialSsh(p) ==
    /\ proc[p].pc = "cloneInitialSsh"
    /\ LET st == Stage(proc[p], "initialssh") IN
       \/ /\ ~bootstrapSshId
          /\ UNCHANGED bootstrapSshId
          /\ Set(p, StageFailed(st, "initialssh", "failed bootstrap: key"))
       \/ /\ bootstrapSshId' = TRUE
          /\ \/ /\ vmRunning
                /\ proc[p].ipAddr # ""
                /\ Set(p, Goto(st, "cloneScpKey"))
             \/ Set(p, StageFailed(st, "initialssh", "failed bootstrap initial ssh"))
    /\ UNCHANGED <<now, nruns, cacheVars, boxcarVars,
                   vmPath, vmConfig, vmRunning, sentinelRuns>>

\* scp -i sshId sshIdPub hobo@ipAddr:.ssh/authorized_keys
cloneScpKey(p) ==
    /\ proc[p].pc = "cloneScpKey"
    /\ LET st == Stage(proc[p], "installkey") IN
       \/ /\ vmRunning
          /\ vmPath["sshIdPub"] # 0
          /\ Set(p, Goto(st, "cloneBootstrap"))
       \/ Set(p, StageFailed(st, "installkey", "failed bootstrap authorized keys"))
    /\ UNCHANGED <<now, nruns, cacheVars, boxcarVars, vmVars>>

\* A test a careless edit could produce: commit whatever the guest printed.
BootstrapOkMutant(last) == TRUE

\* strings.TrimSpace(outlines[len(outlines)-1]) == "hobo-bootstrap-ok"
BootstrapOk(last) == last = Sentinel

\* A record a careless edit could produce: the address is left out.
CommittedNoAddr(t, ipAddr) == [TimeBootstrapped |-> t, IpAddr |-> ""]

\* vm.vmConfig.TimeBootstrapped = time.Now(); vm.vmConfig.IpAddr = ipAddr
Committed(t, ipAddr) == [TimeBootstrapped |-> t, IpAddr |-> ipAddr]

\* The classification of the bootstrap session: on the sentinel
\* vm.writeConfig(), whose result replaces err; otherwise logCmdError.
\* Then log.Fatalf if err != nil, else "Instance running guest on ...".
cloneCommit(p, st, last) ==
    IF BootstrapOk(last)
    THEN \/ /\ vmPath' = [vmPath EXCEPT !["configFile"] = st.run]
            /\ vmConfig' = Committed(now, st.ipAddr)
            /\ Set(p, Goto([Stage(st, "commit") EXCEPT !.saidRunning = TRUE], "startReread"))
         \/ /\ UNCHANGED <<vmPath, vmConfig>>
            /\ Set(p, Fatalf(Stage(st, "commit"), "failed bootstrap"))
    ELSE /\ UNCHANGED <<vmPath, vmConfig>>
         /\ IF st.runErr
            THEN Set(p, Fatalf(st, "failed bootstrap"))
            ELSE Set(p, Goto([st EXCEPT !.saidRunning = TRUE], "startReread"))

\* execCmd.Output() of ssh -i vm.vmConfig.sshId hobo@ipAddr bashCmd: err is the
\* exit status, the last non-blank line of out is what the guest printed last.
\* The session changes nothing another process sees; its classification
\* follows.
cloneBootstrap(p) ==
    /\ proc[p].pc = "cloneBootstrap"
    /\ \E err \in BOOLEAN, out \in Outs :
          LET outlines == Outlines(out)
              st == [Stage(proc[p], "bootstrap") EXCEPT
                        !.ran = TRUE, !.runErr = err,
                        !.sentinel = EndsWithSentinel(out),
                        !.stageErr = IF err \/ ~EndsWithSentinel(out)
                                     THEN "bootstrap" ELSE "none"] IN
          /\ sentinelRuns' = IF EndsWithSentinel(out) THEN sentinelRuns \cup {proc[p].run}
                             ELSE sentinelRuns
          /\ cloneCommit(p, st, outlines[Len(outlines)])
    /\ UNCHANGED <<now, nruns, cacheVars, boxcarVars,
                   vmRunning, bootstrapSshId>>

(***************************************************************************)
(* The specification.                                                      *)
(***************************************************************************)
\* The steps of runFetch.
fetchStep(p) ==
    \/ runFetch(p) \/ fetchStat(p) \/ fetchVerifyCached(p) \/ fetchCreate(p)
    \/ fetchCopy(p) \/ fetchInstall(p) \/ fetchDeferred(p)

\* Concurrent and consecutive "hobo start" invocations for one instance name.
Next ==
    /\ UNCHANGED <<resVars, acq, rmv, key, tpl, restVars>>
    /\ \E p \in Procs :
          \/ cmdStart(p)
          \/ fetchStep(p)
          \/ runStart(p) \/ startReread(p) \/ startVm(p)
          \/ runClone(p) \/ clonePurge(p) \/ cloneUnpack(p) \/ cloneTar(p)
          \/ cloneMarker(p) \/ cloneValidate(p) \/ cloneVmrun(p) \/ cloneKeygen(p)
          \/ cloneStart(p) \/ cloneInitialSsh(p) \/ cloneScpKey(p)
          \/ cloneBootstrap(p)

Spec == Init /\ [][Next]_vars

\* Concurrent and consecutive "hobo fetch" invocations of one template.
FetchNext == UNCHANGED <<resVars, acq, rmv, key, tpl, restVars>> /\ \E p \in Procs : cmdFetch(p) \/ fetchStep(p)

FetchSpec == Init /\ [][FetchNext]_vars

(***************************************************************************)
(* The address of the guest: getIpAddr, getIpAddrFromVmtools,              *)
(* getIpAddrFromVmdhcp and findIpAddrFromVmdhcp, and the commands that ask *)
(* for the address of an instance that has a metadata record.              *)
(***************************************************************************)
Macs == {"macA", "macB"}            \* hardware addresses
LeaseIps == {"ip1", "ip2"}          \* addresses dhcpd hands out
ToolsIpAddrs == IpAddrs \cup LeaseIps   \* trimmed output of getGuestIPAddress
ResOps == {"start", "ip-addr", "ssh", "ssh-config", "vmdhcp"}

\* var noIpAddrForMacAddr = errors.New("no ip address assignment found ...")
noIpAddrForMacAddr == "no ip address assignment found for mac addr in dchp lease file"

\* The leases dhcpd has written, oldest first.
Blocks == [ip : LeaseIps, mac : Macs]
BlockSeqs == UNION {[1..n -> Blocks] : n \in 0..MaxBlocks}

\* The lines of the lease file, trimmed, by what the scan tests of a line:
\*   # ...
\*   lease 192.168.254.169 {
\*     starts 3 2018/02/14 06:56:42;
\*     hardware ethernet 00:0c:29:ff:94:8f;
\*   }
RECURSIVE LeaseLines(_)
LeaseLines(bs) ==
    IF bs = <<>> THEN <<>>
    ELSE << [prefix |-> "lease", field |-> bs[1].ip],
            [prefix |-> "starts", field |-> ""],
            [prefix |-> "hardware ethernet", field |-> bs[1].mac],
            [prefix |-> "}", field |-> ""] >> \o LeaseLines(Tail(bs))
FileLines(bs) == <<[prefix |-> "#", field |-> ""]>> \o LeaseLines(bs)

\* An assignment a careless edit could produce: the first match is kept.
MatchedFirst(ipAddr, leaseIpAddr) == IF ipAddr = "" THEN leaseIpAddr ELSE ipAddr

\* ipAddr = leaseIpAddr
Matched(ipAddr, leaseIpAddr) == leaseIpAddr

\* The two loops over scanner.Scan(): outside a block, a comment is skipped
\* and a line "lease <ip> {" opens a block; inside, "hardware ethernet <mac>;"
\* is compared with macAddr and "}" closes the block.
RECURSIVE scan(_, _, _, _, _, _)
scan(lines, i, inLease, leaseIpAddr, ipAddr, macAddr) ==
    IF i > Len(lines) THEN ipAddr
    ELSE LET line == lines[i] IN
         IF ~inLease
         THEN IF line.prefix = "#" THEN scan(lines, i + 1, FALSE, "", ipAddr, macAddr)
              ELSE IF line.prefix = "lease"
                   THEN scan(lines, i + 1, TRUE, line.field, ipAddr, macAddr)
                   ELSE scan(lines, i + 1, FALSE, "", ipAddr, macAddr)
         ELSE IF line.prefix = "hardware ethernet"
              THEN scan(lines, i + 1, TRUE, leaseIpAddr,
                        IF line.field = macAddr THEN Matched(ipAddr, leaseIpAddr)
                        ELSE ipAddr, macAddr)
              ELSE IF line.prefix = "}"
                   THEN scan(lines, i + 1, FALSE, "", ipAddr, macAddr)
                   ELSE scan(lines, i + 1, TRUE, leaseIpAddr, ipAddr, macAddr)

\* func (vm *instance) findIpAddrFromVmdhcp(macAddr string) (string, error)
findIpAddrFromVmdhcp(file, macAddr) ==
    IF ~file.readable THEN [ipAddr |-> "", err |-> "open"]
    ELSE LET ipAddr == scan(FileLines(file.blocks), 1, FALSE, "", "", macAddr) IN
         IF ipAddr = "" THEN [ipAddr |-> "", err |-> noIpAddrForMacAddr]
         ELSE [ipAddr |-> ipAddr, err |-> "nil"]

\* The invocation ends.
resExit(st, msg) == [st EXCEPT !.pc = "exit", !.exit = msg]

\* A function returns (ipAddr, err) to a caller outside the program's commands.
resReturn(st, ipAddr, err) ==
    [st EXCEPT !.pc = "exit", !.ipAddr = ipAddr, !.err = err,
               !.exit = IF err = "nil" THEN "ok" ELSE "error"]

\* An instance with a metadata record, a lease file, and no process yet.
ResolveInit ==
    /\ now = 0 /\ nruns = 0
    /\ archive = 0
    /\ inodeData = [i \in Inodes |-> <<>>]
    /\ archiveBy = "none"
    /\ tmpFiles = [n \in Clock |-> 0]
    /\ boxcarUnpackFile = TRUE /\ boxcarVmxFile = TRUE /\ boxcarHasVmx = TRUE
    /\ \E hasVmx \in BOOLEAN :
          vmPath = [f \in VmFiles |-> IF f = "vmx" /\ ~hasVmx THEN 0 ELSE 1]
    /\ \E a \in ToolsIpAddrs : vmConfig = [TimeBootstrapped |-> 1, IpAddr |-> a]
    /\ vmRunning = FALSE
    /\ bootstrapSshId = TRUE
    /\ sentinelRuns = {1}
    /\ proc = [p \in Procs |-> NoProc]
    /\ \/ leaseFile = NoLeaseFile
       \/ \E bs \in BlockSeqs : leaseFile = [readable |-> TRUE, blocks |-> bs]
    /\ res = NoRes
    /\ acq = NoAcq
    /\ rmv = NoRm
    /\ key = NoKey
    /\ tpl = NoTpl
    /\ cmd = NoCmd /\ mk = NoMk /\ cf = NoCf /\ doc = NoDoc

\* main: cmd.Run of a command that asks for the address, or a call of
\* getIpAddrFromVmdhcp; -timeout attaches a deadline, 0 = none, counted in
\* sleeps of the lease poll.
resMain ==
    /\ res.pc = "idle"
    /\ \E op \in ResOps, d \in 0..(MaxPolls - 1) :
          res' = [res EXCEPT !.op = op, !.deadline = d, !.exit = "running",
                             !.pc = IF op = "vmdhcp" THEN "getIpAddrFromVmdhcp"
                                    ELSE "readInstanceForName"]
    /\ UNCHANGED <<now, nruns, cacheVars, boxcarVars, vmVars, proc, leaseFile>>

\* vm, err := readInstanceForName(cfg.AppConfig, cfg.Name) of runStart,
\* runIpAddr, runSsh and runSshConfig; the record is there.
resReadInstance ==
    /\ res.pc = "readInstanceForName"
    /\ \E err \in readInstanceForName(vmPath) :
          IF err # "nil" THEN res' = resExit(res, "failed reading config")
          ELSE res' = [res EXCEPT !.pc = IF res.op = "start" THEN "start" ELSE "getIpAddr"]
    /\ UNCHANGED <<now, nruns, cacheVars, boxcarVars, vmVars, proc, leaseFile>>

\* vm.start() of runStart
resStart ==
    /\ res.pc = "start"
    /\ \/ /\ vmPath["vmx"] # 0
          /\ vmRunning' = TRUE
          /\ res' = [res EXCEPT !.pc = "getIpAddr"]
       \/ /\ UNCHANGED vmRunning
          /\ res' = resExit(res, "failed starting")
    /\ UNCHANGED <<now, nruns, cacheVars, boxcarVars, vmPath, vmConfig,
                   bootstrapSshId, sentinelRuns, proc, leaseFile>>

\* A test a careless edit could produce: always ask the guest.
HasIpAddrNever(cfg) == FALSE

\* vm.vmConfig.IpAddr != ""
HasIpAddr(cfg) == cfg.IpAddr # ""

\* func (vm *instance) getIpAddr() (string, error)
getIpAddr ==
    /\ res.pc = "getIpAddr"
    /\ IF HasIpAddr(vmConfig)
       THEN res' = [res EXCEPT !.ipAddr = vmConfig.IpAddr, !.pc = "use"]
       ELSE res' = [res EXCEPT !.pc = "getIpAddrFromVmtools"]
    /\ UNCHANGED <<now, nruns, cacheVars, boxcarVars, vmVars, proc, leaseFile>>

\* func (vm *instance) getIpAddrFromVmtools() (string, error): vmrun
\* getGuestIPAddress -wait.  Called by getIpAddr, whose caller ends on an
\* error, and by runStart after waitForSsh timed out, which drops the address.
getIpAddrFromVmtools ==
    /\ res.pc = "getIpAddrFromVmtools"
    /\ LET st == [res EXCEPT !.tools = @ + 1] IN
       \/ res' = resExit([st EXCEPT !.err = "exit status 255"],
                         IF res.op = "start" THEN "failed starting"
                         ELSE "failed finding ip addr")
       \/ \E a \in ToolsIpAddrs :
             IF res.fallback THEN res' = resExit(st, "ok")
             ELSE res' = [st EXCEPT !.ipAddr = a, !.pc = "use"]
    /\ UNCHANGED <<now, nruns, cacheVars, boxcarVars, vmVars, proc, leaseFile>>

\* What the command does with ip: println(ip), ssh hobo@ip, the Host line of
\* ssh-config, or waitForSsh(ctx, ipAddr) of runStart, after whose timeout
\* getIpAddrFromVmtools is called.
resUse ==
    /\ res.pc = "use"
    /\ LET st == [res EXCEPT !.used = res.ipAddr] IN
       IF res.op = "start"
       THEN \/ vmRunning /\ res.ipAddr # "" /\ res' = resExit(st, "ok")
            \/ res' = [st EXCEPT !.pc = "getIpAddrFromVmtools", !.fallback = TRUE]
       ELSE res' = resExit(st, "ok")
    /\ UNCHANGED <<now, nruns, cacheVars, boxcarVars, vmVars, proc, leaseFile>>

\* The head of getIpAddrFromVmdhcp: os.Open(vmxFile) and the value of
\* ethernet0.generatedAddress, if the descriptor has the line.
getIpAddrFromVmdhcp ==
    /\ res.pc = "getIpAddrFromVmdhcp"
    /\ IF vmPath["vmx"] = 0
       THEN res' = resReturn(res, "", "open vmx")
       ELSE \E m \in Macs \cup {""} :
               IF m = "" THEN res' = resReturn(res, "", "no mac address found in vmx file")
               ELSE res' = [res EXCEPT !.macAddr = m, !.pc = "findIpAddrFromVmdhcp"]
    /\ UNCHANGED <<now, nruns, cacheVars, boxcarVars, vmVars, proc, leaseFile>>

\* A test a careless edit could produce: poll again on any error.
IsNoIpAddrAnyError(err) == err # "nil"

\* err == noIpAddrForMacAddr
IsNoIpAddr(err) == err = noIpAddrForMacAddr

\* One round of the for loop of getIpAddrFromVmdhcp, up to time.Sleep or
\* return.
pollVmdhcp ==
    /\ res.pc = "findIpAddrFromVmdhcp"
    /\ res.scans < MaxPolls
    /\ LET r == findIpAddrFromVmdhcp(leaseFile, res.macAddr)
           st == [res EXCEPT !.scans = @ + 1] IN
       IF IsNoIpAddr(r.err)
       THEN res' = [st EXCEPT !.pc = "Sleep", !.ipAddr = r.ipAddr, !.err = r.err]
       ELSE res' = resReturn(st, r.ipAddr, r.err)
    /\ UNCHANGED <<now, nruns, cacheVars, boxcarVars, vmVars, proc, leaseFile>>

\* time.Sleep(500 * time.Millisecond); continue
sleepVmdhcp ==
    /\ res.pc = "Sleep"
    /\ res' = [res EXCEPT !.elapsed = @ + 1, !.pc = "findIpAddrFromVmdhcp"]
    /\ UNCHANGED <<now, nruns, cacheVars, boxcarVars, vmVars, proc, leaseFile>>

\* vmnet-dhcpd writes a lease while the program polls.
dhcpd ==
    /\ res.pc \in {"findIpAddrFromVmdhcp", "Sleep"}
    /\ leaseFile.readable
    /\ Len(leaseFile.blocks) < MaxBlocks
    /\ \E b \in Blocks : leaseFile' = [leaseFile EXCEPT !.blocks = Append(@, b)]
    /\ UNCHANGED <<now, nruns, cacheVars, boxcarVars, vmVars, proc, res>>

ResolveNext ==
    /\ UNCHANGED <<acq, rmv, key, tpl, restVars>>
    /\ \/ resMain \/ resReadInstance \/ resStart \/ getIpAddr \/ getIpAddrFromVmtools
       \/ resUse \/ getIpAddrFromVmdhcp \/ pollVmdhcp \/ sleepVmdhcp \/ dhcpd

\* One invocation that resolves the address of an instance with a record.
ResolveSpec == ResolveInit /\ [][ResolveNext]_vars

(***************************************************************************)
(* Power-on and address acquisition, second by second: vm.start(),         *)
(* vm.getIpAddr(), waitForSsh and the tools query after a timeout, as      *)
(* runStart (hobo.go:512-529) and runClone (785-802) perform them.  Time   *)
(* is in seconds since main began and passes only while the invocation     *)
(* blocks.                                                                 *)
(***************************************************************************)
DefaultWait == 30               \* time.Now().Add(30 * time.Second)

\* The function f is called.
Call(st, f) == [st EXCEPT !.calls = @ \cup {f}]

\* log.Fatalf, or the caller goes on: runStart returns, runClone goes to the
\* bootstrap key.
acqExit(st, msg) == [st EXCEPT !.pc = "exit", !.exit = msg]
acqGoesOn(st) ==
    acqExit(st, IF st.caller = "runStart" THEN "ok" ELSE "goes on to the bootstrap key")

\* The instance after ssh-keygen of runClone (no metadata record), or an
\* instance with a record whose address may be empty, before runStart's
\* vm.start().
AcquireInit ==
    /\ now = 0 /\ nruns = 0
    /\ archive = 0
    /\ inodeData = [i \in Inodes |-> <<>>]
    /\ archiveBy = "none"
    /\ tmpFiles = [n \in Clock |-> 0]
    /\ boxcarUnpackFile = TRUE /\ boxcarVmxFile = TRUE /\ boxcarHasVmx = TRUE
    /\ \/ /\ vmPath = [f \in VmFiles |-> IF f = "configFile" THEN 0 ELSE 1]
          /\ vmConfig = [TimeBootstrapped |-> 0, IpAddr |-> ""]
          /\ sentinelRuns = {}
       \/ /\ vmPath = [f \in VmFiles |-> 1]
          /\ \E a \in IpAddrs : vmConfig = [TimeBootstrapped |-> 1, IpAddr |-> a]
          /\ sentinelRuns = {1}
    /\ vmRunning \in BOOLEAN
    /\ bootstrapSshId \in BOOLEAN
    /\ proc = [p \in Procs |-> NoProc]
    /\ leaseFile = NoLeaseFile
    /\ res = NoRes
    /\ acq = NoAcq
    /\ rmv = NoRm
    /\ key = NoKey
    /\ tpl = NoTpl
    /\ cmd = NoCmd /\ mk = NoMk /\ cf = NoCf /\ doc = NoDoc

\* main: with -timeout, context.WithTimeout(ctx, timeout); then runStart, which
\* found the record, or runClone, which runStart calls when there is none.
acqMain ==
    /\ acq.pc = "idle"
    /\ \E timeout \in 0..MaxTimeout :
          acq' = [acq EXCEPT !.caller = IF vmPath["configFile"] = 0 THEN "runClone"
                                        ELSE "runStart",
                             !.ctxDeadline = timeout, !.exit = "running", !.pc = "start"]
    /\ UNCHANGED <<pipeVars, resVars>>

\* vm.start(): on an error log.Fatalf("failed starting ...") in runStart,
\* log.Fatalf("failed bootstrap: ...") in runClone.
acqStart ==
    /\ acq.pc = "start"
    /\ \E d \in {0, 1, 2} :      \* the seconds the call takes
          LET st == Call([acq EXCEPT !.time = @ + d], "start") IN
          \/ /\ vmRunning' = TRUE
             /\ acq' = [st EXCEPT !.pc = "getIpAddr"]
          \/ /\ UNCHANGED vmRunning
             /\ acq' = acqExit(st, IF acq.caller = "runStart" THEN "failed starting"
                                   ELSE "failed bootstrap")
    /\ UNCHANGED <<now, nruns, cacheVars, boxcarVars, vmPath, vmConfig,
                   bootstrapSshId, sentinelRuns, proc, resVars>>

\* vm.getIpAddr(): runClone's vm comes from newInstanceForName and has no
\* recorded address.
acqGetIpAddr ==
    /\ acq.pc = "getIpAddr"
    /\ LET st == Call(acq, "getIpAddr") IN
       IF HasIpAddr(vmConfig)
       THEN acq' = [st EXCEPT !.ipAddr = vmConfig.IpAddr, !.pc = "waitForSsh"]
       ELSE acq' = [st EXCEPT !.pc = "getIpAddrFromVmtools"]
    /\ UNCHANGED <<pipeVars, resVars>>

\* A caller a careless edit could produce: a failed tools query after the
\* timeout is ignored.
acqVmtoolsFailedIgnored(st) == acqGoesOn(st)

\* if _, err = vm.getIpAddrFromVmtools(); err != nil: log.Fatalf("failed
\* starting ...") after a timeout in both callers; for the first query
\* "failed starting" in runStart and "failed bootstrap" in runClone.
acqVmtoolsFailed(st) ==
    acqExit(st, IF st.fallback \/ st.caller = "runStart" THEN "failed starting"
                ELSE "failed bootstrap")

\* vm.getIpAddrFromVmtools(): the first query gives the address to wait on;
\* the address of the query after a timeout is dropped.
acqVmtools ==
    /\ acq.pc = "getIpAddrFromVmtools"
    /\ \E d \in {0, 1, 2} :      \* the seconds the call takes
          LET st == Call([acq EXCEPT !.time = @ + d], "getIpAddrFromVmtools") IN
          \/ acq' = acqVmtoolsFailed([st EXCEPT !.toolsErr = "exit status 255"])
          \/ \E a \in IpAddrs :
                IF acq.fallback
                THEN acq' = acqGoesOn([st EXCEPT !.toolsErr = "nil", !.toolsAddr = a])
                ELSE acq' = [st EXCEPT !.toolsErr = "nil", !.ipAddr = a,
                                       !.pc = "waitForSsh"]
    /\ UNCHANGED <<pipeVars, resVars>>

\* A deadline a careless edit could produce: the context's deadline is not
\* looked at.
WaitDeadlineDefault(ctxDeadline, t) == t + DefaultWait

\* deadline, ok := ctx.Deadline(); if !ok { deadline = time.Now().Add(30s) }
WaitDeadline(ctxDeadline, t) == IF ctxDeadline > 0 THEN ctxDeadline ELSE t + DefaultWait

\* waitForSsh(ctx, ipAddr) is called.
waitForSsh ==
    /\ acq.pc = "waitForSsh"
    /\ acq' = [Call(acq, "waitForSsh") EXCEPT
                  !.called = acq.time,
                  !.deadline = WaitDeadline(acq.ctxDeadline, acq.time),
                  !.pc = "for"]
    /\ UNCHANGED <<pipeVars, resVars>>

\* for deadline.Sub(time.Now()) > 0 { ... } return false
waitFor ==
    /\ acq.pc = "for"
    /\ IF acq.deadline - acq.time > 0
       THEN acq' = [acq EXCEPT !.pc = "DialTimeout"]
       ELSE acq' = [acq EXCEPT !.ok = "false", !.pc = "returned"]
    /\ UNCHANGED <<pipeVars, resVars>>

\* _, err := net.DialTimeout("tcp", ipAddr+":22", 1*time.Second); return true
\* if err == nil.
waitDial ==
    /\ acq.pc = "DialTimeout"
    /\ \E d \in {0, 1}, connected \in BOOLEAN :   \* DialTimeout: at most 1 s
          LET st == [acq EXCEPT !.dials = @ + 1, !.lastDial = acq.time,
                                !.time = @ + d,
                                !.err = IF connected THEN "nil" ELSE "i/o timeout"] IN
          IF connected THEN acq' = [st EXCEPT !.ok = "true", !.pc = "returned"]
          ELSE acq' = [st EXCEPT !.pc = "Sleep"]
    /\ UNCHANGED <<pipeVars, resVars>>

\* time.Sleep(1 * time.Second)
waitSleep ==
    /\ acq.pc = "Sleep"
    /\ acq' = [acq EXCEPT !.time = @ + 1, !.pc = "for"]
    /\ UNCHANGED <<pipeVars, resVars>>

\* A fallback a careless edit could produce: the lease file is scanned
\* before the tools are asked again.
GiveUpToVmdhcp(st) ==
    Call([st EXCEPT !.fallback = TRUE, !.toolsErr = "none",
                    !.pc = "getIpAddrFromVmtools"], "getIpAddrFromVmdhcp")

\* "Give up and wait for vmtools to give us the address."
GiveUp(st) == [st EXCEPT !.fallback = TRUE, !.toolsErr = "none",
                         !.pc = "getIpAddrFromVmtools"]

\* if ok := waitForSsh(ctx, ipAddr); ok { return } in runStart, and
\* if ok := waitForSsh(ctx, ipAddr); !ok { ... } in runClone.
acqAfterWait ==
    /\ acq.pc = "returned"
    /\ IF acq.ok = "true" THEN acq' = acqGoesOn(acq)
       ELSE acq' = GiveUp(acq)
    /\ UNCHANGED <<pipeVars, resVars>>

\* The steps of waitForSsh.
waitStep ==
    /\ UNCHANGED <<rmv, key, tpl, restVars>>
    /\ \/ waitForSsh \/ waitFor \/ waitDial \/ waitSleep

AcquireNext ==
    /\ UNCHANGED <<rmv, key, tpl, restVars>>
    /\ \/ acqMain \/ acqStart \/ acqGetIpAddr \/ acqVmtools \/ waitStep \/ acqAfterWait

\* One invocation from vm.start() to the end of the wait for the ssh port.
\* waitForSsh blocks only in net.DialTimeout and time.Sleep, which return.
AcquireSpec == AcquireInit /\ [][AcquireNext]_vars /\ WF_vars(waitStep)

(***************************************************************************)
(* runRm: "hobo rm" of one instance.  The hypervisor runs the instance or  *)
(* not; a running guest may halt by itself at any time.                    *)
(***************************************************************************)
\* What the operator types at the prompt: nothing (end of input), an empty
\* line, or one word and a newline.
Stdin == {"EOF", "", "yes", "y", "Yes", "YES", "no", "yess"}

\* fmt.Scanf("%s\n", &reply): the word, or an error and no word.
Scanf(in) ==
    IF in = "EOF" THEN [reply |-> "", err |-> "EOF"]
    ELSE IF in = "" THEN [reply |-> "", err |-> "unexpected newline"]
    ELSE [reply |-> in, err |-> "nil"]

\* A comparison a careless edit could produce: any word that begins like the
\* affirmative one.
IsAffirmativeLoose(reply, affirmative) == reply \in {"yes", "y", "Yes", "YES", "yess"}

\* reply != affirmative
IsAffirmative(reply, affirmative) == reply = affirmative

\* func prompt(msg, affirmative string) error
prompt(in, affirmative) ==
    LET r == Scanf(in) IN
    IF r.err # "nil" THEN [reply |-> r.reply, err |-> r.err]
    ELSE IF ~IsAffirmative(r.reply, affirmative)
         THEN [reply |-> r.reply, err |-> "prompt declined"]
         ELSE [reply |-> r.reply, err |-> "nil"]

\* log.Fatalf / return of runRm.
rmExit(st, msg) == [st EXCEPT !.pc = "exit", !.exit = msg]

\* An instance directory with or without a metadata record, the VM powered
\* on or not.
RmInit ==
    /\ now = 0 /\ nruns = 0
    /\ archive = 0
    /\ inodeData = [i \in Inodes |-> <<>>]
    /\ archiveBy = "none"
    /\ tmpFiles = [n \in Clock |-> 0]
    /\ boxcarUnpackFile = TRUE /\ boxcarVmxFile = TRUE /\ boxcarHasVmx = TRUE
    /\ \/ /\ vmPath = [f \in VmFiles |-> IF f = "configFile" THEN 0 ELSE 1]
          /\ vmConfig = [TimeBootstrapped |-> 0, IpAddr |-> ""]
          /\ sentinelRuns = {}
       \/ /\ vmPath = [f \in VmFiles |-> 1]
          /\ vmConfig = [TimeBootstrapped |-> 1, IpAddr |-> "ip1"]
          /\ sentinelRuns = {1}
    /\ vmRunning \in BOOLEAN
    /\ bootstrapSshId = TRUE
    /\ proc = [p \in Procs |-> NoProc]
    /\ leaseFile = NoLeaseFile
    /\ res = NoRes
    /\ acq = NoAcq
    /\ rmv = NoRm
    /\ key = NoKey
    /\ tpl = NoTpl
    /\ cmd = NoCmd /\ mk = NoMk /\ cf = NoCf /\ doc = NoDoc

\* main: cmd.Run is runRm.
rmMain ==
    /\ rmv.pc = "idle"
    /\ rmv' = [rmv EXCEPT !.pc = "readInstanceForName", !.exit = "running",
                          !.before = vmPath]
    /\ UNCHANGED <<pipeVars, resVars, acq>>

\* vm, err := readInstanceForName(cfg.AppConfig, cfg.Name)
rmReadInstance ==
    /\ rmv.pc = "readInstanceForName"
    /\ \E err \in readInstanceForName(vmPath) :
          IF err # "nil" THEN rmv' = rmExit(rmv, "failed reading config")
          ELSE rmv' = [rmv EXCEPT !.pc = "prompt"]
    /\ UNCHANGED <<pipeVars, resVars, acq>>

\* if err := prompt("Permanently remove vm and all data? [yes/NO] ", "yes")
rmPrompt ==
    /\ rmv.pc = "prompt"
    /\ \E in \in Stdin :
          LET r == prompt(in, "yes")
              st == [rmv EXCEPT !.stdin = in, !.reply = r.reply, !.promptErr = r.err] IN
          IF r.err # "nil" THEN rmv' = rmExit(st, "aborted")
          ELSE rmv' = [st EXCEPT !.pc = "isRunning"]
    /\ UNCHANGED <<pipeVars, resVars, acq>>

\* vm.isRunning(): vmrun list fails, or its lines are the descriptors of the
\* running VMs, among them vm.vmConfig.vmxFile or not.
isRunning(hypervisor) ==
    {[running |-> FALSE, err |-> "exit status 255"], [running |-> hypervisor, err |-> "nil"]}

\* running, err := vm.isRunning(), before the stop.
rmIsRunning ==
    /\ rmv.pc = "isRunning"
    /\ \E r \in isRunning(vmRunning) :
          LET st == [rmv EXCEPT !.running = r.running, !.listErr = r.err,
                                !.lists = @ + 1] IN
          IF r.err # "nil" THEN rmv' = rmExit(st, "failed remove")
          ELSE rmv' = [st EXCEPT !.pc = IF r.running THEN "stop" ELSE "RemoveAll"]
    /\ UNCHANGED <<pipeVars, resVars, acq>>

\* stopErr := vm.stop(true): vmrun stop <vmx> hard; what it reports and what
\* became of the VM are two things.
rmStop ==
    /\ rmv.pc = "stop"
    /\ \E stopErr \in {"nil", "exit status 255"} :
          rmv' = [rmv EXCEPT !.stopErr = stopErr, !.stops = @ + 1, !.hard = TRUE,
                             !.pc = "isRunningAgain"]
    /\ vmRunning' \in {vmRunning, FALSE}
    /\ UNCHANGED <<now, nruns, cacheVars, boxcarVars, vmPath, vmConfig,
                   bootstrapSshId, sentinelRuns, proc, resVars, acq>>

\* A test a careless edit could produce: the stop is trusted when it reports
\* no error.
StillRunningUnlessStopped(running, stopErr) == running /\ stopErr # "nil"

\* if running { log.Fatalf("failed remove: %s", stopErr) }
StillRunning(running, stopErr) == running

\* running, err := vm.isRunning() after the stop, and the two log.Fatalf.
rmIsRunningAgain ==
    /\ rmv.pc = "isRunningAgain"
    /\ \E r \in isRunning(vmRunning) :
          LET st == [rmv EXCEPT !.running = r.running, !.listErr = r.err,
                                !.lists = @ + 1] IN
          IF StillRunning(r.running, rmv.stopErr) THEN rmv' = rmExit(st, "failed remove")
          ELSE IF r.err # "nil" THEN rmv' = rmExit(st, "failed remove")
          ELSE rmv' = [st EXCEPT !.pc = "RemoveAll"]
    /\ UNCHANGED <<pipeVars, resVars, acq>>

\* os.RemoveAll(vm.vmConfig.vmPath): everything below vmPath, or on an error
\* a part of it.
rmRemoveAll ==
    /\ rmv.pc = "RemoveAll"
    /\ LET st == [rmv EXCEPT !.listedAtRemove = IF vmRunning THEN "listed" ELSE "not listed"] IN
       \/ /\ vmPath' = RemoveAll(vmPath)
          /\ rmv' = rmExit(st, "ok")
       \/ /\ \E left \in SUBSET VmFiles :
                /\ \E f \in left : vmPath[f] # 0
                /\ vmPath' = [f \in VmFiles |-> IF f \in left THEN vmPath[f] ELSE 0]
          /\ rmv' = rmExit(st, "failed remove - partial data left")
    /\ UNCHANGED <<now, nruns, cacheVars, boxcarVars, vmConfig, vmRunning,
                   bootstrapSshId, sentinelRuns, proc, resVars, acq>>

\* The guest shuts down by itself.
guestHalts ==
    /\ rmv.pc \notin {"idle", "exit"}
    /\ vmRunning
    /\ vmRunning' = FALSE
    /\ UNCHANGED <<now, nruns, cacheVars, boxcarVars, vmPath, vmConfig,
                   bootstrapSshId, sentinelRuns, proc, resVars, acq, rmv>>

RmNext ==
    /\ UNCHANGED <<key, tpl, restVars>>
    /\ \/ rmMain \/ rmReadInstance \/ rmPrompt \/ rmIsRunning \/ rmStop
       \/ rmIsRunningAgain \/ rmRemoveAll \/ guestHalts

\* One "hobo rm" of an instance that no other invocation works on.
RmSpec == RmInit /\ [][RmNext]_vars

(***************************************************************************)
(* The shared bootstrap key, hobo.go:804-830: os.Stat, ioutil.WriteFile    *)
(* (open with O_CREATE|O_TRUNC, write, close), then ssh -i and scp -i.     *)
(* The runs are runs of runClone for any instances of one HoboDir.         *)
(***************************************************************************)
\* The file is "absent", "empty" (created or truncated, nothing written
\* yet), or holds "bootstrapInsecurePrivateKey".
KeySet(p, st) == key' = [key EXCEPT !.run[p] = st]
keyFatalf(st, msg) == [st EXCEPT !.pc = "idle", !.exit = msg]

KeyInit ==
    /\ now = 0 /\ nruns = 0
    /\ archive = 0
    /\ inodeData = [i \in Inodes |-> <<>>]
    /\ archiveBy = "none"
    /\ tmpFiles = [n \in Clock |-> 0]
    /\ boxcarUnpackFile = TRUE /\ boxcarVmxFile = TRUE /\ boxcarHasVmx = TRUE
    /\ vmPath = [f \in VmFiles |-> IF f = "configFile" THEN 0 ELSE 1]
    /\ vmConfig = [TimeBootstrapped |-> 0, IpAddr |-> ""]
    /\ vmRunning = TRUE
    /\ bootstrapSshId = FALSE
    /\ sentinelRuns = {}
    /\ proc = [p \in Procs |-> NoProc]
    /\ leaseFile = NoLeaseFile
    /\ res = NoRes
    /\ acq = NoAcq
    /\ rmv = NoRm
    /\ key = NoKey
    /\ tpl = NoTpl
    /\ cmd = NoCmd /\ mk = NoMk /\ cf = NoCf /\ doc = NoDoc

\* A run of runClone has the address of its guest and comes to line 804.
keyBegin(p) ==
    /\ key.run[p].pc = "idle"
    /\ key.runs < MaxKeyRuns
    /\ key' = [key EXCEPT !.runs = @ + 1,
                          !.run[p] = [NoKey.run[p] EXCEPT !.pc = "Stat", !.exit = "running"]]

\* if _, err := os.Stat(sshId); err != nil
keyStat(p) ==
    /\ key.run[p].pc = "Stat"
    /\ IF key.file = "absent"
       THEN KeySet(p, [key.run[p] EXCEPT !.statErr = "ENOENT", !.pc = "WriteFile"])
       ELSE KeySet(p, [key.run[p] EXCEPT !.statErr = "nil", !.pc = "ssh"])

\* ioutil.WriteFile(sshId, ..., 0600): os.OpenFile(sshId,
\* O_WRONLY|O_CREATE|O_TRUNC, 0600), which empties a file that is there.
keyOpen(p) ==
    /\ key.run[p].pc = "WriteFile"
    /\ \/ key' = [key EXCEPT !.file = "empty", !.writes = @ + 1,
                             !.run[p] = [key.run[p] EXCEPT !.pc = "Write"]]
       \/ KeySet(p, keyFatalf(key.run[p], "failed bootstrap"))

\* f.Write(data) and f.Close() of ioutil.WriteFile.
keyWrite(p) ==
    /\ key.run[p].pc = "Write"
    /\ \/ key' = [key EXCEPT !.file = "bootstrapInsecurePrivateKey",
                             !.run[p] = [key.run[p] EXCEPT !.pc = "ssh"]]
       \/ KeySet(p, keyFatalf(key.run[p], "failed bootstrap"))

\* ssh ... -i sshId hobo@ipAddr /bin/true: the guest admits the key of the
\* template and nothing else.
keySsh(p) ==
    /\ key.run[p].pc = "ssh"
    /\ LET st == [key.run[p] EXCEPT !.ssh = key.file] IN
       \/ /\ key.file = "bootstrapInsecurePrivateKey"
          /\ KeySet(p, [st EXCEPT !.pc = "scp"])
       \/ KeySet(p, keyFatalf(st, "failed bootstrap initial ssh"))

\* scp ... -i sshId sshIdPub hobo@ipAddr:.ssh/authorized_keys
keyScp(p) ==
    /\ key.run[p].pc = "scp"
    /\ LET st == [key.run[p] EXCEPT !.scp = key.file] IN
       \/ /\ key.file = "bootstrapInsecurePrivateKey"
          /\ KeySet(p, [st EXCEPT !.pc = "idle", !.exit = "goes on to the bootstrap"])
       \/ KeySet(p, keyFatalf(st, "failed bootstrap authorized keys"))

KeyNext ==
    /\ UNCHANGED <<pipeVars, resVars, acq, rmv, tpl, restVars>>
    /\ \E p \in Procs :
          \/ keyBegin(p) \/ keyStat(p) \/ keyOpen(p) \/ keyWrite(p)
          \/ keySsh(p) \/ keyScp(p)

\* Runs of runClone, one after another or at the same time, at the bootstrap
\* key of one HoboDir.
KeySpec == KeyInit /\ [][KeyNext]_vars

(***************************************************************************)
(* The template across runs of the pipeline: the reference of the .hobo    *)
(* file, the archives cached under the base name of the Url, and the       *)
(* directory <Boxcar.Name>.vmwarevm with its marker .hobo-unpacked.        *)
(* hobo.go:609-690 (runFetch, as a whole) and 731-757 (unpack, validate).  *)
(***************************************************************************)
\* path.Base(bxc.Url) of archivePath.
Base(url) ==
    CASE url = "http://a/box-1.txz" -> "box-1.txz"
      [] url = "http://b/box-1.txz" -> "box-1.txz"
      [] url = "http://a/box-2.txz" -> "box-2.txz"

TplInit ==
    /\ now = 0 /\ nruns = 0
    /\ archive = 0
    /\ inodeData = [i \in Inodes |-> <<>>]
    /\ archiveBy = "none"
    /\ tmpFiles = [n \in Clock |-> 0]
    /\ boxcarUnpackFile = FALSE /\ boxcarVmxFile = FALSE /\ boxcarHasVmx = TRUE
    /\ vmPath = [f \in VmFiles |-> 0]
    /\ vmConfig = [TimeBootstrapped |-> 0, IpAddr |-> ""]
    /\ vmRunning = FALSE
    /\ bootstrapSshId = FALSE
    /\ sentinelRuns = {}
    /\ proc = [p \in Procs |-> NoProc]
    /\ leaseFile = NoLeaseFile
    /\ res = NoRes
    /\ acq = NoAcq
    /\ rmv = NoRm
    /\ key = NoKey
    /\ tpl = NoTpl
    /\ cmd = NoCmd /\ mk = NoMk /\ cf = NoCf /\ doc = NoDoc

tplFatalf(msg) == [tpl EXCEPT !.pc = "idle", !.exit = msg]

\* The operator declares another Url or Sha256 under the same Boxcar.Name.
tplEdit ==
    /\ tpl.pc = "idle"
    /\ tpl.edits < MaxEdits
    /\ \E u \in Urls, h \in Sha256s :
          /\ [Url |-> u, Sha256 |-> h] # tpl.ref
          /\ tpl' = [tpl EXCEPT !.ref = [Url |-> u, Sha256 |-> h],
                                !.edits = @ + 1,
                                !.stale = (tpl.template # "none")]

\* The cached archive of the declared reference is damaged on disk, between
\* runs or between the check of runFetch and the tar of runClone.
tplDamage ==
    /\ tpl.pc \in {"idle", "runClone"}
    /\ tpl.cache[Base(tpl.ref.Url)] \in Sha256s
    /\ tpl' = [tpl EXCEPT !.cache[Base(tpl.ref.Url)] = "damaged"]

\* "hobo start" of an instance that has no record: runStart calls runFetch.
tplBegin ==
    /\ tpl.pc = "idle"
    /\ tpl' = [tpl EXCEPT !.pc = "runFetch", !.exit = "running", !.extracted = FALSE]

\* runFetch: a cached file of the declared digest is kept; any other cached
\* file is removed and the run ends; with no cached file the Url is fetched
\* and the bytes are installed when their digest is the declared one.
tplFetch ==
    /\ tpl.pc = "runFetch"
    /\ LET b == Base(tpl.ref.Url) IN
       IF tpl.cache[b] # "none"
       THEN IF tpl.cache[b] = tpl.ref.Sha256
            THEN tpl' = [tpl EXCEPT !.pc = "runClone"]
            ELSE tpl' = [tplFatalf("failed to fetch: signature mismatch")
                           EXCEPT !.cache[b] = "none"]
       ELSE \E sum \in Sha256s :
               IF sum = tpl.ref.Sha256
               THEN tpl' = [tpl EXCEPT !.cache[b] = sum, !.pc = "runClone",
                                       !.stale = (tpl.template # "none")]
               ELSE tpl' = tplFatalf("failed to fetch: signature mismatch")

\* os.Stat(boxcarUnpackFile) finds the marker of <Boxcar.Name>.vmwarevm.
HasMarker(t) == t.marker

\* runClone, lines 731-750: without the marker, tar extracts the archive
\* into the directory of the name and the marker is created.
tplUnpack ==
    /\ tpl.pc = "runClone"
    /\ IF HasMarker(tpl)
       THEN tpl' = [tpl EXCEPT !.pc = "vmrunClone"]
       ELSE LET sum == tpl.cache[Base(tpl.ref.Url)] IN
            IF sum \in Sha256s
            THEN \/ tpl' = [tpl EXCEPT !.template = sum, !.marker = TRUE,
                                       !.stale = FALSE, !.extracted = TRUE,
                                       !.pc = "vmrunClone"]
                 \/ tpl' = [tplFatalf("failed cloning") EXCEPT !.template = sum]
            ELSE tpl' = [tplFatalf("failed cloning") EXCEPT !.template = "damaged"]

\* vmrun clone of the template directory, and the rest of the pipeline.
tplVmrunClone ==
    /\ tpl.pc = "vmrunClone"
    /\ tpl' = [tpl EXCEPT !.pc = "idle", !.exit = "ok"]

TplNext ==
    /\ UNCHANGED <<pipeVars, resVars, acq, rmv, key, restVars>>
    /\ \/ tplEdit \/ tplDamage \/ tplBegin \/ tplFetch \/ tplUnpack \/ tplVmrunClone

\* Runs of the pipeline, one after another, between edits of the reference.
TemplateSpec == TplInit /\ [][TplNext]_vars

(***************************************************************************)
(* The commands on an instance that exists: runStop, runSuspend (hobo.go    *)
(* 532-562), runRm (579-607), runIpAddr, runSsh, runSshConfig (854-892).    *)
(* Each begins with readInstanceForName; what follows is kept to the first  *)
(* thing the command invokes and to what it changes.                        *)
(***************************************************************************)
CmdOps == {"stop", "suspend", "ip-addr", "ssh", "ssh-config", "rm"}

\* What the command has around it: the files of the instance, the record, the
\* hypervisor.
CmdWorld == <<vmPath, vmConfig, vmRunning>>

\* An instance never provisioned, one a failed run left (descriptor and
\* keys, no record), or a committed one.
CommandInit ==
    /\ now = 0 /\ nruns = 0
    /\ archive = 0
    /\ inodeData = [i \in Inodes |-> <<>>]
    /\ archiveBy = "none"
    /\ tmpFiles = [n \in Clock |-> 0]
    /\ boxcarUnpackFile = TRUE /\ boxcarVmxFile = TRUE /\ boxcarHasVmx = TRUE
    /\ \/ /\ vmPath = [f \in VmFiles |-> 0]
          /\ vmConfig = [TimeBootstrapped |-> 0, IpAddr |-> ""]
          /\ sentinelRuns = {}
          /\ vmRunning = FALSE
       \/ /\ \E keys \in BOOLEAN :
                vmPath = [f \in VmFiles |-> IF f = "configFile" THEN 0
                                            ELSE IF f \in {"sshId", "sshIdPub"} /\ ~keys THEN 0
                                            ELSE 1]
          /\ vmConfig = [TimeBootstrapped |-> 0, IpAddr |-> ""]
          /\ sentinelRuns = {}
          /\ vmRunning \in BOOLEAN
       \/ /\ vmPath = [f \in VmFiles |-> 1]
          /\ \E a \in IpAddrs : vmConfig = [TimeBootstrapped |-> 1, IpAddr |-> a]
          /\ sentinelRuns = {1}
          /\ vmRunning \in BOOLEAN
    /\ bootstrapSshId = TRUE
    /\ proc = [p \in Procs |-> NoProc]
    /\ leaseFile = NoLeaseFile
    /\ res = NoRes
    /\ acq = NoAcq
    /\ rmv = NoRm
    /\ key = NoKey
    /\ tpl = NoTpl
    /\ cmd = NoCmd /\ mk = NoMk /\ cf = NoCf /\ doc = NoDoc

cmdExit(st, msg) == [st EXCEPT !.pc = "idle", !.exit = msg]
cmdInvoke(st, what) == [st EXCEPT !.invoked = @ \cup {what}]

\* main: cmd.Run is the Run of the command; runStop parses -force first.
cmdMain ==
    /\ cmd.pc = "idle" /\ cmd.exit = "none"
    /\ \E op \in CmdOps :
          LET st == [cmd EXCEPT !.op = op, !.exit = "running", !.before = CmdWorld] IN
          \/ cmd' = [st EXCEPT !.pc = "readInstanceForName"]
          \/ /\ op = "stop"
             /\ cmd' = cmdExit(st, "failed")
    /\ UNCHANGED <<pipeVars, resVars, acq, rmv, key, tpl, mk, doc, cf>>

\* A test a careless edit could produce: as in runStart, a missing record is
\* let through.
cmdReadFailedUnlessMissing(err) == err \notin {"nil", "ENOENT"}

\* if err != nil { log.Fatalf("failed reading config: %v", err) }
cmdReadFailed(err) == err # "nil"

\* vm, err := readInstanceForName(cfg.AppConfig, cfg.Name)
cmdReadInstance ==
    /\ cmd.pc = "readInstanceForName"
    /\ \E err \in readInstanceForName(vmPath) :
          LET st == [cmd EXCEPT !.readErr = err] IN
          IF cmdReadFailed(err) THEN cmd' = cmdExit(st, "failed reading config")
          ELSE cmd' = [st EXCEPT !.pc = cmd.op]
    /\ UNCHANGED <<pipeVars, resVars, acq, rmv, key, tpl, mk, doc, cf>>

\* vm.stop(hard): vmrun stop; syscall.Exec of vmrun suspend.
cmdStopSuspend ==
    /\ cmd.pc \in {"stop", "suspend"}
    /\ LET st == cmdInvoke(cmd, "vmrun") IN
       \/ /\ vmRunning' = FALSE
          /\ cmd' = cmdExit(st, "ok")
       \/ /\ UNCHANGED vmRunning
          /\ cmd' = cmdExit(st, IF cmd.op = "stop" THEN "failed stop" ELSE "failed exec")
    /\ UNCHANGED <<now, nruns, cacheVars, boxcarVars, vmPath, vmConfig,
                   bootstrapSshId, sentinelRuns, proc, resVars, acq, rmv, key, tpl, mk, doc, cf>>

\* ip, err := vm.getIpAddr(), then println(ip), syscall.Exec of ssh with
\* -i sshId hobo@ip, or the printed ssh configuration.
cmdAddress ==
    /\ cmd.pc \in {"ip-addr", "ssh", "ssh-config"}
    /\ LET st == IF HasIpAddr(vmConfig) THEN cmd ELSE cmdInvoke(cmd, "vmrun") IN
       \/ /\ ~HasIpAddr(vmConfig)
          /\ cmd' = cmdExit(st, "failed finding ip addr")
       \/ cmd' = cmdExit(IF cmd.op = "ssh" THEN cmdInvoke(st, "ssh") ELSE st, "ok")
    /\ UNCHANGED <<pipeVars, resVars, acq, rmv, key, tpl, mk, doc, cf>>

\* runRm after the read: the prompt, then the stop of a running VM and
\* os.RemoveAll(vmPath).
cmdRm ==
    /\ cmd.pc = "rm"
    /\ \E in \in Stdin :
          LET st == cmdInvoke(cmd, "prompt") IN
          IF prompt(in, "yes").err # "nil"
          THEN /\ cmd' = cmdExit(st, "aborted")
               /\ UNCHANGED <<vmPath, vmRunning>>
          ELSE \/ /\ cmd' = cmdExit(cmdInvoke(st, "vmrun"), "failed")
                  /\ UNCHANGED <<vmPath, vmRunning>>
               \/ /\ cmd' = cmdExit(cmdInvoke(st, "vmrun"), "ok")
                  /\ vmRunning' = FALSE
                  /\ vmPath' = RemoveAll(vmPath)
    /\ UNCHANGED <<now, nruns, cacheVars, boxcarVars, vmConfig,
                   bootstrapSshId, sentinelRuns, proc, resVars, acq, rmv, key, tpl, mk, doc, cf>>

CommandNext ==
    \/ cmdMain \/ cmdReadInstance \/ cmdStopSuspend \/ cmdAddress \/ cmdRm

\* One invocation of one command on one instance.
CommandSpec == CommandInit /\ [][CommandNext]_vars

(***************************************************************************)
(* The metadata record: type vmConfig and newVmConfig (hobo.go:167-205),   *)
(* writeConfig and readConfig (430-448).  Strings are sequences of         *)
(* characters, an instance name is its dot-separated parts, a path is the  *)
(* sequence of its elements.  A time.Time is seconds and nanoseconds, the  *)
(* monotonic reading and the location.                                     *)
(***************************************************************************)
Names == {<<"dev">>, <<"a", "b">>}
Addrs == {<<>>, <<"1", ".", "2">>, <<"h", "<", "\"">>}
LocalOffset == "+01:00"     \* the zone of the machine
ZeroTime == [sec |-> 0, nsec |-> 0, mono |-> 0, loc |-> "UTC"]
Times == {ZeroTime}
           \cup [sec : {5}, nsec : {0, 7}, mono : {0, 9}, loc : {"Local", "UTC"}]

\* newVmConfigForName and newVmConfig: the paths derived from the name.
\* path.Ext(vmName) is the last dot-separated part.
newVmConfig(name) ==
    LET vmName == name \o <<"vmwarevm">>
        dir == <<"$HoboDir", "vms", vmName>>
        stem == SubSeq(vmName, 1, Len(vmName) - 1) IN
    [TimeBootstrapped |-> ZeroTime, IpAddr |-> <<>>,
     appConfig |-> "ac", boxcar |-> "none",
     vmPath |-> dir,
     vmxFile |-> dir \o <<stem \o <<"vmx">>>>,
     configFile |-> dir \o <<"hobo", "config.json">>,
     sshId |-> dir \o <<"hobo-insecure">>,
     sshIdPub |-> dir \o <<"hobo-insecure.pub">>]

\* encoding/json takes the exported fields of a struct: those whose name
\* begins with a capital.
Exported == {"TimeBootstrapped", "IpAddr"}

\* A JSON string: quotes around, and \" \\ and < for the characters
\* that may not stand for themselves.
RECURSIVE Quoted(_)
Quoted(str) ==
    IF str = <<>> THEN <<>>
    ELSE (CASE Head(str) = "\"" -> <<"\\", "\"">>
            [] Head(str) = "\\" -> <<"\\", "\\">>
            [] Head(str) = "<" -> <<"\\", "u003c">>
            [] OTHER -> <<Head(str)>>) \o Quoted(Tail(str))
MarshalString(str) == <<"\"">> \o Quoted(str) \o <<"\"">>

RECURSIVE Unquoted(_)
Unquoted(q) ==
    IF q = <<>> THEN <<>>
    ELSE IF Head(q) = "\\"
         THEN <<(IF q[2] = "u003c" THEN "<" ELSE q[2])>> \o Unquoted(SubSeq(q, 3, Len(q)))
         ELSE <<Head(q)>> \o Unquoted(Tail(q))
UnmarshalString(q) == Unquoted(SubSeq(q, 2, Len(q) - 1))

\* A marshalling a careless edit could produce: the time to the second.
TimeMarshalSeconds(t) ==
    [sec |-> t.sec, nsec |-> 0,
     zone |-> IF t.loc = "UTC" THEN "Z" ELSE LocalOffset]

\* Time.MarshalJSON: RFC 3339 with nanoseconds and the zone offset; the
\* monotonic reading is not part of the text.
TimeMarshal(t) ==
    [sec |-> t.sec, nsec |-> t.nsec,
     zone |-> IF t.loc = "UTC" THEN "Z" ELSE LocalOffset]

\* Time.UnmarshalJSON: the instant of the text, in UTC for "Z" and in Local
\* for the offset of the machine; no monotonic reading.
TimeUnmarshal(x) ==
    [sec |-> x.sec, nsec |-> x.nsec, mono |-> 0,
     loc |-> IF x.zone = "Z" THEN "UTC" ELSE "Local"]

\* json.Marshal(vm.vmConfig): an object of the exported fields.
Marshal(cfg) ==
    [f \in Exported |-> IF f = "IpAddr" THEN MarshalString(cfg[f]) ELSE TimeMarshal(cfg[f])]

\* json.Unmarshal(data, &vm.vmConfig): the exported fields named in the
\* object are set, every other field of the struct stays.
Unmarshal(data, cfg) ==
    [f \in DOMAIN cfg |->
        IF f \in Exported \cap DOMAIN data
        THEN IF f = "IpAddr" THEN UnmarshalString(data[f]) ELSE TimeUnmarshal(data[f])
        ELSE cfg[f]]

\* Time.Equal: the same instant.
TimeEqual(t, u) == t.sec = u.sec /\ t.nsec = u.nsec

RecordInit ==
    /\ now = 0 /\ nruns = 0
    /\ archive = 0
    /\ inodeData = [i \in Inodes |-> <<>>]
    /\ archiveBy = "none"
    /\ tmpFiles = [n \in Clock |-> 0]
    /\ boxcarUnpackFile = TRUE /\ boxcarVmxFile = TRUE /\ boxcarHasVmx = TRUE
    /\ vmPath = [f \in VmFiles |-> IF f = "configFile" THEN 0 ELSE 1]
    /\ vmConfig = [TimeBootstrapped |-> 0, IpAddr |-> ""]
    /\ vmRunning = TRUE
    /\ bootstrapSshId = TRUE
    /\ sentinelRuns = {}
    /\ proc = [p \in Procs |-> NoProc]
    /\ leaseFile = NoLeaseFile
    /\ res = NoRes
    /\ acq = NoAcq
    /\ rmv = NoRm
    /\ key = NoKey
    /\ tpl = NoTpl
    /\ cmd = NoCmd /\ mk = NoMk /\ cf = NoCf
    /\ \E name \in Names, t \in Times, a \in Addrs :
          doc = [NoDoc EXCEPT !.name = name,
                              !.w = [newVmConfig(name) EXCEPT !.TimeBootstrapped = t,
                                                              !.IpAddr = a,
                                                              !.boxcar = "cfg.Boxcar"]]

\* vm.writeConfig(): json.Marshal, os.MkdirAll, ioutil.WriteFile, which may
\* fail before or after it has emptied or created the file.
docWriteConfig ==
    /\ doc.pc = "idle"
    /\ \/ doc' = [doc EXCEPT !.have = "whole", !.file = Marshal(doc.w),
                             !.err = "nil", !.pc = "written"]
       \/ \E left \in {"none", "truncated"} :
             doc' = [doc EXCEPT !.have = left, !.err = "EIO", !.pc = "written"]

\* readInstanceForName(ac, name): newVmConfigForName, then vm.readConfig():
\* ioutil.ReadFile and json.Unmarshal.
docReadInstanceForName ==
    /\ doc.pc = "written"
    /\ LET cfg == newVmConfig(doc.name) IN
       IF doc.have = "none" THEN doc' = [doc EXCEPT !.err = "ENOENT", !.pc = "read"]
       ELSE IF doc.have = "truncated"
            THEN doc' = [doc EXCEPT !.err = "unexpected end of JSON input", !.pc = "read"]
            ELSE doc' = [doc EXCEPT !.r = Unmarshal(doc.file, cfg), !.err = "nil", !.pc = "read"]

RecordNext ==
    /\ UNCHANGED <<pipeVars, resVars, acq, rmv, key, tpl, cmd, mk, cf>>
    /\ \/ docWriteConfig \/ docReadInstanceForName

\* One record written by writeConfig and read by readInstanceForName.
RecordSpec == RecordInit /\ [][RecordNext]_vars

(***************************************************************************)
(* runMakeBoxcar, the compression (hobo.go:969-999): pigz runs in a        *)
(* goroutine that sends the result of pigzCmd.Run() on an unbuffered       *)
(* channel; tar runs in the main flow with its standard output copied, by  *)
(* a goroutine of os/exec, into the pipe to pigz.  mk.stdin is the pipe of *)
(* StdinPipe (written through pigzWr, read by pigz), mk.stdout the pipe    *)
(* os/exec makes because tarCmd.Stdout is no *os.File.                     *)
(***************************************************************************)
MakeInit ==
    /\ now = 0 /\ nruns = 0
    /\ archive = 0
    /\ inodeData = [i \in Inodes |-> <<>>]
    /\ archiveBy = "none"
    /\ tmpFiles = [n \in Clock |-> 0]
    /\ boxcarUnpackFile = FALSE /\ boxcarVmxFile = FALSE /\ boxcarHasVmx = TRUE
    /\ vmPath = [f \in VmFiles |-> 0]
    /\ vmConfig = [TimeBootstrapped |-> 0, IpAddr |-> ""]
    /\ vmRunning = FALSE
    /\ bootstrapSshId = FALSE
    /\ sentinelRuns = {}
    /\ proc = [p \in Procs |-> NoProc]
    /\ leaseFile = NoLeaseFile
    /\ res = NoRes
    /\ acq = NoAcq
    /\ rmv = NoRm
    /\ key = NoKey
    /\ tpl = NoTpl
    /\ cmd = NoCmd /\ mk = NoMk /\ cf = NoCf /\ doc = NoDoc

\* log.Fatalf("failed compressing: %s", err)
mkFatalf(st) == [st EXCEPT !.pc = "done", !.exit = "failed compressing"]

\* pigzCmd.StdinPipe(), os.Create(vmwarevmPath + ".tgz"), and the goroutine
\* with pigzCmd.Run().
mkPipe ==
    /\ mk.pc = "idle"
    /\ \/ mk' = mkFatalf(mk)
       \/ mk' = [mk EXCEPT !.stdin = [buf |-> 0, wOpen |-> TRUE, rOpen |-> TRUE],
                           !.go = "Run", !.pc = "tarCmd.Run"]

\* pigzCmd.Run() in the goroutine: Start.  When pigz cannot be started,
\* os/exec closes both ends of the pipe and Run returns the error.
mkPigzStart ==
    /\ mk.go = "Run" /\ mk.pigz = "none"
    /\ \/ mk' = [mk EXCEPT !.pigz = "running"]
       \/ mk' = [mk EXCEPT !.pigz = "not started", !.go = "send", !.goErr = "exec: not found",
                           !.stdin.wOpen = FALSE, !.stdin.rOpen = FALSE]

\* pigz reads a block and writes it compressed to fout; at the end of its
\* input it exits.
mkPigz ==
    /\ mk.pigz = "running"
    /\ \/ /\ mk.stdin.buf > 0
          /\ mk' = [mk EXCEPT !.stdin.buf = @ - 1, !.out = @ + 1]
       \/ /\ mk.stdin.buf = 0 /\ ~mk.stdin.wOpen
          /\ mk' = [mk EXCEPT !.pigz = "exited", !.pigzStatus = 0, !.stdin.rOpen = FALSE]

\* pigz exits early, with a failure.
mkPigzFails ==
    /\ mk.pigz = "running"
    /\ mk' = [mk EXCEPT !.pigz = "exited", !.pigzStatus = 1, !.stdin.rOpen = FALSE]

\* pigzCmd.Run() in the goroutine: Wait returns when pigz has exited, and
\* closes the write end if it is still open.
mkPigzWait ==
    /\ mk.go = "Run" /\ mk.pigz = "exited"
    /\ mk' = [mk EXCEPT !.go = "send", !.stdin.wOpen = FALSE,
                        !.goErr = IF mk.pigzStatus = 0 THEN "nil" ELSE "exit status 1"]

\* tarCmd.Run(): Start; tar has MaxData blocks to write.  os/exec starts the
\* goroutine that copies from tar's pipe to tarCmd.Stdout, which is pigzWr.
mkTarStart ==
    /\ mk.pc = "tarCmd.Run" /\ mk.tar = "none"
    /\ \/ mk' = mkFatalf([mk EXCEPT !.tar = "not started", !.err = "exec: not found"])
       \/ \E n \in 0..MaxData :
             mk' = [mk EXCEPT !.tar = "running", !.left = n, !.copy = "Read",
                              !.stdout = [buf |-> 0, wOpen |-> TRUE, rOpen |-> TRUE]]

\* tar writes a block when the pipe has room, gets EPIPE when the read end
\* is closed, and exits when it has written everything.
mkTar ==
    /\ mk.tar = "running"
    /\ \/ /\ mk.left > 0 /\ mk.stdout.rOpen /\ mk.stdout.buf < PipeCap
          /\ mk' = [mk EXCEPT !.left = @ - 1, !.stdout.buf = @ + 1]
       \/ /\ mk.left > 0 /\ ~mk.stdout.rOpen
          /\ mk' = [mk EXCEPT !.tar = "exited", !.tarStatus = 1, !.stdout.wOpen = FALSE]
       \/ /\ mk.left = 0
          /\ mk' = [mk EXCEPT !.tar = "exited", !.tarStatus = 0, !.stdout.wOpen = FALSE]

\* tar fails by itself.
mkTarFails ==
    /\ mk.tar = "running"
    /\ mk' = [mk EXCEPT !.tar = "exited", !.tarStatus = 1, !.stdout.wOpen = FALSE]

\* The copy goroutine of os/exec ends: _, err := io.Copy(w, pr); pr.Close().
CopyEnds(st, err) == [st EXCEPT !.copy = "done", !.copyErr = err, !.stdout.rOpen = FALSE]

\* io.Copy(w, pr) reads a block from tar's pipe, or its end.
mkCopyRead ==
    /\ mk.copy = "Read"
    /\ \/ /\ mk.stdout.buf > 0
          /\ mk' = [mk EXCEPT !.stdout.buf = @ - 1, !.held = 1, !.copy = "Write"]
       \/ /\ mk.stdout.buf = 0 /\ ~mk.stdout.wOpen
          /\ mk' = [mk EXCEPT !.copy = "done", !.copyErr = "nil", !.stdout.rOpen = FALSE]

\* io.Copy(w, pr) writes the block to pigzWr: an error when pigzWr is closed
\* or pigz has closed its end, else the block goes in when there is room.
mkCopyWrite ==
    /\ mk.copy = "Write"
    /\ IF ~mk.stdin.wOpen THEN mk' = CopyEnds(mk, "file already closed")
       ELSE IF ~mk.stdin.rOpen THEN mk' = CopyEnds(mk, "broken pipe")
       ELSE /\ mk.stdin.buf < PipeCap
            /\ mk' = [mk EXCEPT !.stdin.buf = @ + 1, !.held = 0, !.copy = "Read"]

\* A main flow that goes to the channel without closing the pipe.
pigzWrLeftOpen(st) == st

\* pigzWr.Close()
pigzWrClose(st) == [st EXCEPT !.stdin.wOpen = FALSE]

\* tarCmd.Run(): Wait returns when tar has exited and the copy has ended;
\* then if err != nil log.Fatalf, else pigzWr.Close().
mkTarWait ==
    /\ mk.pc = "tarCmd.Run" /\ mk.tar = "exited" /\ mk.copy = "done"
    /\ LET err == IF mk.tarStatus # 0 THEN "exit status 1" ELSE mk.copyErr IN
       IF err # "nil" THEN mk' = mkFatalf([mk EXCEPT !.err = err])
       ELSE mk' = pigzWrClose([mk EXCEPT !.pc = "<-pigzErrC"])

\* pigzErrC <- pigzCmd.Run() meets <-pigzErrC: the channel has no buffer.
mkReceive ==
    /\ mk.pc = "<-pigzErrC" /\ mk.go = "send"
    /\ IF mk.goErr # "nil" THEN mk' = mkFatalf([mk EXCEPT !.go = "sent", !.err = mk.goErr])
       ELSE mk' = [mk EXCEPT !.go = "sent", !.pc = "done", !.exit = "Created"]

\* The steps that are taken in the end when they can be: those of the main
\* flow, of the goroutines, and of tar and pigz doing their work.
mkStep ==
    /\ UNCHANGED <<pipeVars, resVars, acq, rmv, key, tpl, cmd, doc, cf>>
    /\ \/ mkPipe \/ mkPigzStart \/ mkPigz \/ mkPigzWait \/ mkTarStart \/ mkTar
       \/ mkCopyRead \/ mkCopyWrite \/ mkTarWait \/ mkReceive

MakeNext ==
    \/ mkStep
    \/ /\ UNCHANGED <<pipeVars, resVars, acq, rmv, key, tpl, cmd, doc, cf>>
       /\ (mkPigzFails \/ mkTarFails)

\* The compression of one make-boxcar.  A failure of tar or pigz by itself
\* may happen and need not.
MakeSpec == MakeInit /\ [][MakeNext]_vars /\ WF_vars(mkStep)

(***************************************************************************)
(* main (hobo.go:1130-1166) with findConfigFile (1001-1013) and            *)
(* newLocalConfigFromFile (138-165).  The environment is drawn at the      *)
(* start: the command, the two flags, the files that exist, what the       *)
(* configuration file holds, and whether the vmware tools are installed.   *)
(***************************************************************************)
Home == "/home/u"

\* os.ExpandEnv, with HOME set.
ExpandEnv(path) == [i \in DOMAIN path |-> IF path[i] = "$HOME" THEN Home ELSE path[i]]

\* var commands, by name.
commands == {"start", "stop", "suspend", "ip-addr", "ssh", "ssh-config", "ls", "rm", "fetch",
             "make-boxcar"}

\* The flag "data-dir": its default, or a directory given.
DataDirs == {<<"$HOME", ".hobo.d">>, <<"/tmp", "d">>}

\* The flag "config-file": its default, or a file given.
ConfigFiles == {<<>>, <<"my.hobo">>}

\* What a configuration file holds: no JSON, or a document that sets
\* AppConfig.HoboDir or does not.
Contents ==
    {[valid |-> FALSE, set |-> FALSE, HoboDir |-> <<>>],
     [valid |-> TRUE, set |-> FALSE, HoboDir |-> <<>>]}
    \cup {[valid |-> TRUE, set |-> TRUE, HoboDir |-> d] :
             d \in {<<>>, <<"/data">>, <<"$HOME", "d">>}}

ConfigInit ==
    /\ now = 0 /\ nruns = 0
    /\ archive = 0
    /\ inodeData = [i \in Inodes |-> <<>>]
    /\ archiveBy = "none"
    /\ tmpFiles = [n \in Clock |-> 0]
    /\ boxcarUnpackFile = FALSE /\ boxcarVmxFile = FALSE /\ boxcarHasVmx = TRUE
    /\ vmPath = [f \in VmFiles |-> 0]
    /\ vmConfig = [TimeBootstrapped |-> 0, IpAddr |-> ""]
    /\ vmRunning = FALSE
    /\ bootstrapSshId = FALSE
    /\ sentinelRuns = {}
    /\ proc = [p \in Procs |-> NoProc]
    /\ leaseFile = NoLeaseFile
    /\ res = NoRes
    /\ acq = NoAcq
    /\ rmv = NoRm
    /\ key = NoKey
    /\ tpl = NoTpl
    /\ cmd = NoCmd /\ mk = NoMk /\ doc = NoDoc
    /\ \E n \in commands, c \in ConfigFiles, d \in DataDirs, t \in BOOLEAN,
          e \in SUBSET {<<".hobo">>, <<Home, ".hobo">>, <<"my.hobo">>}, x \in Contents :
          cf = [NoCf EXCEPT !.name = n, !.configFile = c, !.hoboDir = d, !.tools = t,
                            !.exists = e, !.content = x]

\* The search order a careless edit could produce: the home directory first.
searchPathsHomeFirst == <<<<"$HOME", ".hobo">>, <<".hobo">>>>

\* searchPaths := []string{".hobo", "$HOME/.hobo"}
searchPaths == <<<<".hobo">>, <<"$HOME", ".hobo">>>>

\* The loop of findConfigFile from the i-th search path on.
RECURSIVE findFrom(_, _)
findFrom(i, exists) ==
    IF i > Len(searchPaths) THEN <<>>
    ELSE LET name == ExpandEnv(searchPaths[i]) IN
         IF name \in exists THEN name ELSE findFrom(i + 1, exists)

findConfigFile(fname, exists) == IF fname # <<>> THEN fname ELSE findFrom(1, exists)

\* json.Unmarshal(data, lc): a member the document has not is left as it was.
cfUnmarshal(HoboDir, data) == IF data.set THEN data.HoboDir ELSE HoboDir

\* main down to the call of newLocalConfigFromFile.
cfMain ==
    /\ cf.pc = "idle"
    /\ IF cf.name \in {"make-boxcar", "ls"}
       THEN cf' = [cf EXCEPT !.pc = "newLocalConfigFromFile"]
       ELSE LET cfgFname == findConfigFile(cf.configFile, cf.exists) IN
            IF cfgFname = <<>>
            THEN cf' = [cf EXCEPT !.pc = "done",
                                  !.exit = "unable to find a .hobo file in the search path"]
            ELSE cf' = [cf EXCEPT !.pc = "newLocalConfigFromFile", !.cfgFname = cfgFname]

\* cfg, err := newLocalConfigFromFile(cfgFname), and log.Fatalf on an error.
cfNewLocalConfig ==
    /\ cf.pc = "newLocalConfigFromFile"
    /\ LET failed(st) == [st EXCEPT !.pc = "done", !.exit = "failed reading config"]
           preset == <<"$HOME", ".hobo.d">> IN
       IF ~cf.tools THEN cf' = failed(cf)
       ELSE IF cf.cfgFname = <<>>
       THEN cf' = [cf EXCEPT !.pc = "HoboDir", !.HoboDir = ExpandEnv(preset)]
       ELSE IF cf.cfgFname \notin cf.exists THEN cf' = failed(cf)
       ELSE IF ~cf.content.valid
       THEN cf' = failed([cf EXCEPT !.read = Append(@, cf.cfgFname)])
       ELSE cf' = [cf EXCEPT !.pc = "HoboDir", !.read = Append(@, cf.cfgFname),
                             !.HoboDir = ExpandEnv(cfUnmarshal(preset, cf.content))]

\* if cfg.AppConfig.HoboDir == "" { cfg.AppConfig.HoboDir = hoboDir }, and
\* cmd.Run(ctx, cmd, args).
cfRun ==
    /\ cf.pc = "HoboDir"
    /\ cf' = [cf EXCEPT !.pc = "Run",
                        !.HoboDir = IF cf.HoboDir = <<>> THEN cf.hoboDir ELSE @]

\* appConfig.vmsDir() and appConfig.boxcarsDir().
vmsDir(HoboDir) == HoboDir \o <<"vms">>

boxcarsDir(HoboDir) == HoboDir \o <<"cache", "boxcars">>

ConfigNext ==
    /\ UNCHANGED <<pipeVars, resVars, acq, rmv, key, tpl, cmd, mk, doc>>
    /\ (cfMain \/ cfNewLocalConfig \/ cfRun)

ConfigSpec == ConfigInit /\ [][ConfigNext]_vars

(***************************************************************************)
(* Properties.                                                             *)
(***************************************************************************)
\* The classification of the bootstrap session of p's run is over.
Classified(p) == proc[p].ran

\* Every earlier invocation had ended when the run of st began.
Isolated(st) == st.run > 0 /\ st.prior = 1..(st.run - 1)

\* q's run is the invocation right after p's run, and neither overlapped
\* with any other invocation.
Consecutive(p, q) ==
    /\ Isolated(proc[p]) /\ Isolated(proc[q])
    /\ proc[q].run = proc[p].run + 1

\* C1: the metadata file of the instance exists only if the bootstrap session
\* of the run that wrote it printed the sentinel as its last non-blank line;
\* this holds in every state, also after a failed stage.
C1_MetadataOnlyAfterSentinel ==
    vmPath["configFile"] # 0 => vmPath["configFile"] \in sentinelRuns

C1_Witness ==
    \E p \in Procs : /\ vmPath["configFile"] = proc[p].run
                     /\ proc[p].sentinel
                     /\ proc[p].exit = "ok"

\* C2: a bootstrap session that exits non-zero with the sentinel as its last
\* non-blank line is a failed bootstrap: the run aborts with the bootstrap
\* failure and writes no metadata record.
C2_NonZeroExitWithSentinelIsFailure ==
    \A p \in Procs :
       (Classified(p) /\ proc[p].runErr /\ proc[p].sentinel)
          => /\ proc[p].exit = "failed bootstrap"
             /\ vmPath["configFile"] # proc[p].run

\* C3: a bootstrap session that exits zero without the sentinel as its last
\* non-blank line is a failed bootstrap: runClone ends the run with the
\* bootstrap failure, does not report the instance as running, and writes no
\* metadata record.
C3_ZeroExitWithoutSentinelIsFatal ==
    \A p \in Procs :
       (Classified(p) /\ ~proc[p].runErr /\ ~proc[p].sentinel)
          => /\ proc[p].exit = "failed bootstrap"
             /\ ~proc[p].saidRunning
             /\ vmPath["configFile"] # proc[p].run

\* C4: when a stage of a run fails, that stage is the last thing the run
\* does: no later stage (and no purge, which belongs to the guard) follows it,
\* and the run writes no metadata record.
C4_FailFast ==
    \A p \in Procs :
       proc[p].stageErr # "none"
          => /\ proc[p].stages[Len(proc[p].stages)] = proc[p].stageErr
             /\ vmPath["configFile"] # proc[p].run

\* C5: runClone for an instance whose metadata file exists fails with the
\* already-exists error, purges nothing and runs no stage after the guard.
C5_ExistingInstanceUntouched ==
    \A p \in Procs :
       proc[p].cfgAtGuard
          => /\ proc[p].exit = "cannot overwrite existing vm"
             /\ proc[p].stages = <<"fetch", "guard">>
             /\ ~proc[p].purged

C5_Witness ==
    \E p \in Procs : /\ proc[p].cfgAtGuard
                     /\ vmPath["configFile"] # 0
                     /\ vmPath["vmx"] # 0

\* C6: a run that finds the .vmx descriptor without a metadata file removes
\* the whole instance directory before it unpacks and clones: from the guard
\* to the clone step nothing of an earlier run is left below vmPath.
C6_PartialInstancePurged ==
    \A p \in Procs :
       (/\ proc[p].vmxAtGuard
        /\ proc[p].pc \in {"cloneUnpack", "cloneTar", "cloneMarker", "cloneValidate", "cloneVmrun"})
          => /\ proc[p].purged
             /\ \A f \in VmFiles : vmPath[f] \notin proc[p].prior

C6_Witness ==
    \E p \in Procs : /\ proc[p].vmxAtGuard
                     /\ Isolated(proc[p])
                     /\ proc[p].prior # {}
                     /\ proc[p].pc = "cloneVmrun"
                     /\ \A f \in VmFiles : vmPath[f] = 0

\* C7: when the clone step of a run executes, the instance directory holds
\* nothing that a run which had ended before this run began left behind.
C7_CloneStartsClean ==
    \A p \in Procs :
       proc[p].pc = "cloneVmrun" => \A f \in VmFiles : vmPath[f] \notin proc[p].prior

\* C8: of two consecutive runFetch calls of which the first downloaded and
\* installed the archive, the second finds the archive, issues no GET, does
\* not fail on the digest, and leaves the installed archive in place.
C8_SecondFetchTransfersNothing ==
    \A p, q \in Procs :
       (/\ Consecutive(p, q)
        /\ proc[p].exit = "ok" /\ proc[p].gets = 1
        /\ proc[q].pc = "idle")
          => /\ proc[q].archiveAtStat
             /\ proc[q].gets = 0
             /\ proc[q].exit \in {"ok", "failed to fetch: open", "failed to fetch: read"}
             /\ archiveBy = "fetch"
             /\ ArchiveData = BoxcarBytes

C8_Witness ==
    \E p, q \in Procs :
       /\ Consecutive(p, q)
       /\ proc[p].exit = "ok" /\ proc[p].gets = 1
       /\ proc[q].exit = "ok" /\ proc[q].gets = 0

\* C9: a runFetch call that finds a cached archive with another digest than
\* the declared one fails on the digest without issuing a GET and leaves no
\* file at the archive path; the next call finds no archive, downloads, and
\* installs exactly when the downloaded bytes have the declared digest.
C9_CorruptArchiveDeletedThenRefetched ==
    \A p \in Procs :
       proc[p].cachedBad
          => /\ proc[p].exit = "failed to fetch: signature mismatch"
             /\ proc[p].gets = 0
             /\ (Isolated(proc[p]) /\ proc[p].run = nruns) => archive = 0
             /\ \A q \in Procs :
                   (Consecutive(p, q) /\ proc[q].pc = "idle")
                      => /\ ~proc[q].archiveAtStat
                         /\ proc[q].exit \notin {"failed: mkdir", "create"} => proc[q].gets = 1
                         /\ proc[q].exit = "ok"
                               => (archiveBy = "fetch" /\ ArchiveData = BoxcarBytes
                                   /\ proc[q].body = BoxcarBytes)
                         /\ proc[q].exit = "failed to fetch: signature mismatch"
                               => (proc[q].body # BoxcarBytes /\ archive = 0)

C9_Witness ==
    \E p, q \in Procs :
       /\ proc[p].cachedBad
       /\ Consecutive(p, q)
       /\ proc[q].exit = "ok" /\ proc[q].gets = 1
       /\ archiveBy = "fetch" /\ ArchiveData = BoxcarBytes

\* C10: in every state, also with concurrent fetches of the template and
\* with failures, a file that fetch placed at the archive path is complete
\* and has the declared digest.
C10_InstalledArchiveComplete ==
    archiveBy = "fetch" => (archive # 0 /\ Sha256(ArchiveData) = BoxcarSha256)

\* C11: when the digest of the downloaded bytes differs from the declared one,
\* the step of runFetch after the copy ends the process; unless fout.Sync
\* failed first it removes the temporary name and fails with the signature
\* mismatch carrying the declared and the computed digest; in no case does it
\* create or change the file at the archive path.
C11_DownloadMismatch ==
    [][\A p \in Procs :
          (/\ proc[p].pc = "fetchInstall"
           /\ proc[p].hasher # BoxcarSha256
           /\ proc'[p] # proc[p])
             => /\ archive' = archive /\ archiveBy' = archiveBy
                /\ ArchiveData' = ArchiveData
                /\ proc'[p].exit \in {"failed to fetch: signature mismatch",
                                      "failed to fetch: sync"}
                /\ proc'[p].exit = "failed to fetch: signature mismatch"
                      => /\ tmpFiles'[proc[p].nanos] = 0
                         /\ proc'[p].digests = <<BoxcarSha256, proc[p].hasher>>]_vars

C11_Witness ==
    \E p \in Procs :
       /\ proc[p].exit = "failed to fetch: signature mismatch"
       /\ proc[p].gets = 1
       /\ proc[p].body # BoxcarBytes
       /\ proc[p].digests = <<BoxcarSha256, Sha256(proc[p].body)>>
       /\ \A n \in Clock : tmpFiles[n] = 0

\* The steps of the unpack stage: tar is invoked exactly when os.Stat finds
\* no marker, and the marker appears only in the step after a tar that
\* succeeded.
UnpackSteps ==
    /\ \A p \in Procs :
          proc'[p] # proc[p]
             => /\ proc[p].pc = "cloneUnpack"
                      => proc'[p].pc = IF boxcarUnpackFile THEN "cloneValidate" ELSE "cloneTar"
                /\ proc'[p].pc = "cloneTar"
                      => (proc[p].pc = "cloneUnpack" /\ ~boxcarUnpackFile)
                /\ (proc'[p].extracted /\ ~proc[p].extracted)
                      => proc[p].pc = "cloneTar"
    /\ boxcarUnpackFile' # boxcarUnpackFile
          => /\ boxcarUnpackFile'
             /\ \E p \in Procs : /\ proc[p].pc = "cloneMarker" /\ proc[p].extracted
                                 /\ proc'[p].pc = "cloneValidate"

\* p's run extracted the archive and created the marker.
Unpacked(p) ==
    /\ proc[p].extracted
    /\ proc[p].pc # "cloneMarker"
    /\ proc[p].exit # "failed cloning: marker"

\* C12, as stated: tar is invoked exactly when the marker is absent, the
\* marker is created only after tar succeeded, and of two consecutive runs
\* whose extraction did not fail at most one extracts the archive.
C12_ExtractedAtMostOnce ==
    /\ [][UnpackSteps]_vars
    /\ [](\A p, q \in Procs :
             Consecutive(p, q) => ~(proc[p].extracted /\ proc[q].extracted))

\* C12, amended: tar is invoked exactly when the marker is absent, the marker
\* is created only after tar succeeded, and a run that begins after a run
\* that extracted the archive and created the marker has ended does not
\* extract it again.
C12_ExtractedOncePerMarker ==
    /\ [][UnpackSteps]_vars
    /\ [](\A p, q \in Procs :
             (Unpacked(p) /\ proc[p].run \in proc[q].prior) => ~proc[q].extracted)

C12_Witness ==
    \E p, q \in Procs :
       /\ Unpacked(p) /\ proc[p].run \in proc[q].prior
       /\ proc[q].pc = "cloneVmrun"
       /\ ~proc[q].extracted

\* A run aborted by the missing template descriptor.
InvalidBoxcar(p) == proc[p].exit = "invalid boxcar, missing vmx file"

\* C13: a process that finds no template descriptor after the unpack step
\* ends with the invalid-template error and has not invoked the hypervisor
\* clone, whether the marker was present or the archive was just extracted: the
\* step after the unpack goes to the clone when it finds the descriptor and
\* otherwise ends the run with that error, no file of the instance changed and
\* no clone stage begun; no other step goes to the clone, begins the clone
\* stage, or ends with that error.
C13_MissingTemplateAborts ==
    [][\A p \in Procs :
          proc'[p].pc # proc[p].pc
             => CASE proc[p].pc = "cloneValidate" ->
                       IF boxcarVmxFile
                       THEN proc'[p].pc = "cloneVmrun"
                       ELSE /\ InvalidBoxcar(p)'
                            /\ proc'[p].pc = "idle"
                            /\ vmPath' = vmPath
                            /\ \A i \in 1..Len(proc'[p].stages) :
                                  proc'[p].stages[i] # "clone"
                  [] proc[p].pc = "cloneVmrun" -> TRUE
                  [] OTHER ->
                       /\ proc'[p].pc # "cloneVmrun"
                       /\ ~InvalidBoxcar(p)'
                       /\ Len(proc'[p].stages) > Len(proc[p].stages)
                             => proc'[p].stages[Len(proc'[p].stages)] # "clone"]_vars

\* One run extracted the archive, created the marker and found no template
\* descriptor; a later run found the marker, extracted nothing, and was
\* aborted in the same way.  No file of the instance exists.
C13_Witness ==
    \E p, q \in Procs :
       /\ InvalidBoxcar(p) /\ proc[p].extracted
       /\ InvalidBoxcar(q) /\ ~proc[q].extracted
       /\ proc[p].run \in proc[q].prior
       /\ boxcarUnpackFile /\ ~boxcarVmxFile
       /\ \A f \in VmFiles : vmPath[f] = 0

\* The stages of runFetch and runClone, in the order of the statements of
\* runStart and runClone.
StageOrder ==
    <<"fetch", "guard", "unpack", "clone", "keygen", "poweron", "address",
      "initialssh", "installkey", "bootstrap", "commit">>

IsPrefix(s, t) == Len(s) <= Len(t) /\ \A i \in 1..Len(s) : s[i] = t[i]

\* The stages p's run has begun; the check of the template descriptor belongs
\* to the unpack stage.
Begun(st) == SelectSeq(st.stages, LAMBDA s : s # "validate")

\* The order with the check of the template descriptor, which closes the
\* unpack stage, at its place.
StageOrderV == SubSeq(StageOrder, 1, 3) \o <<"validate">> \o SubSeq(StageOrder, 4, Len(StageOrder))

\* The steps of runClone after its guard, and the stage that was begun last
\* when the run is at step l.
StagePcs == {"clonePurge", "cloneUnpack", "cloneTar", "cloneMarker", "cloneValidate",
             "cloneVmrun", "cloneKeygen", "cloneStart", "cloneInitialSsh",
             "cloneScpKey", "cloneBootstrap"}
StageAt(l) ==
    CASE l \in {"clonePurge", "cloneUnpack"} -> {"guard"}
      [] l \in {"cloneTar", "cloneMarker", "cloneValidate"} -> {"unpack"}
      [] l = "cloneVmrun" -> {"validate"}
      [] l = "cloneKeygen" -> {"clone"}
      [] l = "cloneStart" -> {"keygen"}
      [] l = "cloneInitialSsh" -> {"address"}
      [] l = "cloneScpKey" -> {"initialssh"}
      [] l = "cloneBootstrap" -> {"installkey"}
      [] OTHER -> {}

\* C14: the record of the stages a run has begun, to which every stage is
\* appended when it begins, is always an initial part of the fixed order
\* fetch, guard, unpack, clone, key generation, power-on, address, initial
\* ssh, key install, bootstrap, commit (no stage twice, none out of order,
\* none begun again after a later one); and a run stands before a stage only
\* when the stage before it was the last one begun and has not failed.
C14_StageOrder ==
    \A p \in Procs :
       LET s == proc[p].stages IN
       /\ Len(s) <= Len(StageOrderV)
       /\ s = SubSeq(StageOrderV, 1, Len(s))
       /\ proc[p].pc \in StagePcs
             => /\ s # <<>>
                /\ s[Len(s)] \in StageAt(proc[p].pc)
                /\ proc[p].stageErr = "none"

\* A run went through every stage, from the fetch to the commit.
C14_Witness ==
    \E p \in Procs :
       /\ Begun(proc[p]) = StageOrder
       /\ proc[p].exit = "ok"
       /\ vmPath["configFile"] = proc[p].run

\* C15: runStart goes into the pipeline exactly when the metadata file does
\* not exist at its read; the pipeline is entered nowhere else, and it is
\* runFetch and then runClone.  A start that found a metadata record begins no
\* stage: it ends at once when the record cannot be read, and otherwise only
\* powers the VM on and waits for it, changing nothing but the power state.
C15_PipelineIffNoMetadata ==
    /\ [][\A p \in Procs :
            /\ (proc[p].pc = "runStart" /\ proc'[p] # proc[p])
                  => /\ proc'[p].pc = "runFetch" <=> vmPath["configFile"] = 0
                     /\ vmPath["configFile"] # 0
                           => \/ proc'[p].pc = "startVm"
                              \/ proc'[p].exit = "failed reading config"
                     /\ proc'[p].stages = <<>>
                     /\ UNCHANGED <<cacheVars, boxcarVars, vmVars>>
            /\ (proc'[p].pc = "runFetch" /\ proc[p].pc # "runFetch")
                  => proc[p].pc = "runStart" /\ vmPath["configFile"] = 0
            /\ (proc'[p].pc = "runClone" /\ proc[p].pc # "runClone")
                  => Begun(proc[p]) = <<"fetch">>
            /\ (proc[p].pc = "startVm" /\ proc[p].stages = <<>> /\ proc'[p] # proc[p])
                  => /\ proc'[p].pc = "idle"
                     /\ proc'[p].stages = <<>>
                     /\ UNCHANGED <<cacheVars, boxcarVars, vmPath, vmConfig,
                                    bootstrapSshId, sentinelRuns>>]_vars
    /\ [](\A p \in Procs :
            (proc[p].run > 0 /\ proc[p].stages = <<>>)
               => /\ proc[p].pc \in {"runStart", "runFetch", "startVm", "idle"}
                  /\ ~proc[p].ran /\ ~proc[p].extracted /\ proc[p].gets = 0)

\* One start provisioned the instance; a later start found the metadata
\* record, began no stage, and returned with the VM powered on.
C15_Witness ==
    \E p, q \in Procs :
       /\ Begun(proc[q]) = StageOrder
       /\ proc[q].run \in proc[p].prior
       /\ proc[p].stages = <<>> /\ proc[p].exit = "ok"
       /\ vmPath["configFile"] = proc[q].run
       /\ vmRunning

\* The guest of p's run executed the bootstrap script to its last line.
Executed(p) == proc[p].ran /\ proc[p].sentinel

\* No two invocations overlapped.
Sequential == \A p \in Procs : proc[p].run > 0 => Isolated(proc[p])

C17_RecordedAddressPreferred ==
    /\ [][(res.pc = "getIpAddr" /\ res' # res)
             => IF vmConfig.IpAddr # ""
                THEN /\ res'.ipAddr = vmConfig.IpAddr
                     /\ res'.pc = "use"
                     /\ res'.tools = res.tools /\ res'.scans = res.scans
                ELSE res'.pc = "getIpAddrFromVmtools"]_vars
    /\ [][(res'.pc = "getIpAddrFromVmtools" /\ res.pc # "getIpAddrFromVmtools")
             => \/ res.pc = "getIpAddr" /\ vmConfig.IpAddr = ""
                \/ res.pc = "use" /\ res.op = "start"]_vars
    /\ [](\A op \in {"start", "ip-addr", "ssh", "ssh-config"} :
            (res.op = op /\ res.used # "none" /\ vmConfig.IpAddr # "")
               => res.used = vmConfig.IpAddr /\ res.scans = 0)

\* hobo ssh on an instance with a recorded address: the session goes to the
\* recorded address and the guest tools were never asked.
C17_Witness ==
    /\ res.op = "ssh" /\ res.exit = "ok"
    /\ vmConfig.IpAddr = "ip1" /\ res.used = "ip1"
    /\ res.tools = 0 /\ res.scans = 0

\* The positions of the lease blocks for hardware address m, and the address
\* of the last of them.
MatchingBlocks(bs, m) == {i \in 1..Len(bs) : bs[i].mac = m}
LastLease(bs, m) ==
    LET S == MatchingBlocks(bs, m) IN
    IF S = {} THEN "" ELSE bs[CHOOSE i \in S : \A j \in S : j <= i].ip

\* C18: the scan of a readable lease file that has a block for the given
\* hardware address returns, without error, the address of the last such
\* block; this holds of every lease file and hardware address, and the blocks
\* for other hardware addresses do not change the answer.
C18_LastLeaseWins ==
    /\ [][(/\ res.pc = "findIpAddrFromVmdhcp" /\ res' # res
            /\ leaseFile.readable
            /\ MatchingBlocks(leaseFile.blocks, res.macAddr) # {})
              => /\ res'.pc = "exit" /\ res'.err = "nil"
                 /\ res'.ipAddr = LastLease(leaseFile.blocks, res.macAddr)]_vars
    /\ [](leaseFile.readable
            => \A m \in Macs :
                  /\ findIpAddrFromVmdhcp(leaseFile, m).ipAddr = LastLease(leaseFile.blocks, m)
                  /\ findIpAddrFromVmdhcp(leaseFile, m)
                        = findIpAddrFromVmdhcp(
                             [leaseFile EXCEPT !.blocks = SelectSeq(@, LAMBDA b : b.mac = m)], m))

\* Two leases for the hardware address with different addresses, then a lease
\* for another one: the scan returned the address of the second.
C18_Witness ==
    /\ res.op = "vmdhcp" /\ res.exit = "ok" /\ res.macAddr = "macA"
    /\ leaseFile.blocks = << [ip |-> "ip1", mac |-> "macA"],
                             [ip |-> "ip2", mac |-> "macA"],
                             [ip |-> "ip1", mac |-> "macB"] >>
    /\ res.ipAddr = "ip2"

\* C19: a scan of a readable lease file with no block for the hardware
\* address answers the empty address and noIpAddrForMacAddr, which is not the
\* error of a lease file that cannot be opened; getIpAddrFromVmdhcp sleeps
\* and scans again on exactly that answer, and returns every other error at
\* once.
C19_RetryOnlyOnNoIpAddr ==
    /\ [][(res.pc = "findIpAddrFromVmdhcp" /\ res' # res)
             => /\ (leaseFile.readable /\ MatchingBlocks(leaseFile.blocks, res.macAddr) = {})
                      => /\ res'.err = noIpAddrForMacAddr /\ res'.ipAddr = ""
                         /\ res'.pc = "Sleep"
                /\ ~leaseFile.readable
                      => /\ res'.err # noIpAddrForMacAddr /\ res'.err # "nil"
                         /\ res'.ipAddr = ""
                         /\ res'.pc = "exit" /\ res'.exit = "error"
                /\ res'.pc = "Sleep" <=> res'.err = noIpAddrForMacAddr
                /\ res'.scans = res.scans + 1]_vars
    /\ [][(res.pc = "Sleep" /\ res' # res)
             => /\ res'.pc = "findIpAddrFromVmdhcp"
                /\ res'.elapsed = res.elapsed + 1
                /\ res'.scans = res.scans]_vars
    /\ [](\A m \in Macs :
            (leaseFile.readable /\ MatchingBlocks(leaseFile.blocks, m) = {})
               => findIpAddrFromVmdhcp(leaseFile, m)
                     = [ipAddr |-> "", err |-> noIpAddrForMacAddr])

\* The lease file has leases, none for the hardware address: the second scan
\* answered noIpAddrForMacAddr again and the loop sleeps.
C19_Witness ==
    /\ res.pc = "Sleep" /\ res.scans = 2 /\ res.elapsed = 1
    /\ res.err = noIpAddrForMacAddr /\ res.ipAddr = ""
    /\ leaseFile.readable /\ leaseFile.blocks # <<>>
    /\ MatchingBlocks(leaseFile.blocks, res.macAddr) = {}

\* C20: with a deadline attached to the invocation, getIpAddrFromVmdhcp does
\* not go on polling the lease file once the deadline has elapsed: after that
\* time it neither scans nor sleeps, it has returned.
C20_PollingStopsAtDeadline ==
    (res.op = "vmdhcp" /\ res.deadline > 0 /\ res.elapsed > res.deadline)
       => res.pc \notin {"findIpAddrFromVmdhcp", "Sleep"}

\* waitForSsh is running: it was called and has not returned.
InWaitForSsh == acq.pc \in {"for", "DialTimeout", "Sleep"}

\* C21: waitForSsh always terminates.  Its deadline is the context's deadline
\* if one is attached and otherwise 30 seconds after the call; it begins a
\* connection attempt only before the deadline, returns true at once when an
\* attempt succeeds and only then, returns false only when the deadline has
\* passed and as soon as it finds it passed, and sleeps one second after
\* every failed attempt; once called it returns.
C21_WaitForSshTerminates ==
    /\ []((InWaitForSsh \/ acq.ok # "none")
            => acq.deadline = IF acq.ctxDeadline > 0 THEN acq.ctxDeadline
                              ELSE acq.called + 30)
    /\ [](acq.pc = "DialTimeout" => acq.time < acq.deadline)
    /\ [](acq.dials > 0 => acq.lastDial < acq.deadline)
    /\ [](acq.ok = "true" <=> acq.err = "nil")
    /\ [](acq.ok = "false" => acq.time >= acq.deadline)
    /\ []((acq.pc = "DialTimeout" /\ acq.dials > 0) => acq.time >= acq.lastDial + 1)
    /\ [][(acq.pc = "for" /\ acq' # acq)
             => IF acq.time >= acq.deadline
                THEN acq'.ok = "false" /\ acq'.pc = "returned" /\ acq'.dials = acq.dials
                ELSE acq'.pc = "DialTimeout"]_vars
    /\ [][(acq.pc = "DialTimeout" /\ acq' # acq)
             => /\ acq'.dials = acq.dials + 1
                /\ IF acq'.err = "nil" THEN acq'.pc = "returned" ELSE acq'.pc = "Sleep"]_vars
    /\ [][(acq.pc = "Sleep" /\ acq' # acq)
             => acq'.time = acq.time + 1 /\ acq'.pc = "for"]_vars
    /\ [](acq.pc = "waitForSsh" => <>(acq.ok # "none"))

\* No deadline was attached: waitForSsh gave up 30 seconds after the call,
\* after more than one failed attempt.
C21_Witness ==
    /\ acq.ok = "false" /\ acq.ctxDeadline = 0
    /\ acq.deadline = acq.called + 30
    /\ acq.dials > 1 /\ acq.time >= acq.deadline

\* C22: in runStart and in runClone alike, a waitForSsh that returned false
\* does not end the run: the next step is the tools query, and after it the
\* run is aborted exactly when that query failed; otherwise runStart returns
\* and runClone goes on.
C22_TimeoutFallsBackToTools ==
    /\ [][(acq.pc = "returned" /\ acq.ok = "false" /\ acq' # acq)
             => /\ acq'.pc = "getIpAddrFromVmtools"
                /\ acq'.exit = "running"]_vars
    /\ [][(acq.pc = "getIpAddrFromVmtools" /\ acq.ok = "false" /\ acq' # acq)
             => /\ acq'.pc = "exit"
                /\ "getIpAddrFromVmtools" \in acq'.calls
                /\ acq'.exit = IF acq'.toolsErr # "nil" THEN "failed starting"
                               ELSE IF acq.caller = "runStart" THEN "ok"
                               ELSE "goes on to the bootstrap key"]_vars
    /\ [](\A c \in {"runStart", "runClone"} :
             (acq.caller = c /\ acq.ok = "false" /\ acq.pc = "exit")
                => (acq.exit = "failed starting" <=> acq.toolsErr # "nil"))

\* runClone's wait for the ssh port timed out, the tools answered, and
\* runClone goes on.
C22_Witness ==
    /\ acq.caller = "runClone" /\ acq.ok = "false" /\ acq.dials > 0
    /\ acq.toolsErr = "nil" /\ acq.pc = "exit"
    /\ acq.exit = "goes on to the bootstrap key"

Deleted == rmv.before # <<>> /\ vmPath # rmv.before

\* C24: after the confirmation, runRm deletes below the instance directory
\* only in its last step, in a state where the hypervisor does not list the
\* instance, and after a listing of its own that it obtained without error and
\* that did not contain the instance; when the first listing contains the
\* instance it issues one hard stop and lists again; when the instance is
\* still listed after the stop, or a listing cannot be obtained, it ends with
\* an error and has deleted nothing.  So no VM runs with deleted storage.
C24_RmNeverDeletesRunning ==
    /\ [][vmPath' # vmPath
             => /\ rmv.pc = "RemoveAll" /\ rmv'.pc = "exit"
                /\ ~vmRunning
                /\ ~rmv.running /\ rmv.listErr = "nil"
                /\ rmv.promptErr = "nil"]_vars
    /\ [][(rmv.pc = "isRunning" /\ rmv' # rmv /\ vmRunning)
             => \/ rmv'.pc = "stop"
                \/ rmv'.listErr # "nil" /\ rmv'.exit = "failed remove"]_vars
    /\ [][(rmv.pc = "stop" /\ rmv' # rmv)
             => rmv'.pc = "isRunningAgain" /\ rmv'.hard /\ rmv'.stops = 1]_vars
    /\ [][(rmv.pc = "isRunningAgain" /\ rmv' # rmv /\ rmv'.pc # "exit")
             => ~vmRunning /\ rmv'.listErr = "nil"]_vars
    /\ []((rmv.pc = "RemoveAll" /\ rmv.stops > 0) => rmv.lists = 2)
    /\ [](rmv.exit = "failed remove" => ~Deleted)
    /\ [](Deleted => ~vmRunning /\ rmv.listedAtRemove = "not listed")

\* The instance ran, the hard stop reported an error and stopped it all the
\* same, the second listing did not contain it, and the directory is gone.
C24_Witness ==
    /\ rmv.exit = "ok" /\ rmv.stops = 1 /\ rmv.hard /\ rmv.lists = 2
    /\ rmv.stopErr # "nil"
    /\ \A f \in VmFiles : vmPath[f] = 0
    /\ ~vmRunning

\* C25: unless the word read at the prompt is exactly "yes", runRm neither
\* lists nor stops the VM nor deletes a file: after any other word, an empty
\* line or a read error it ends with "aborted" and the instance directory is
\* as it was; and nothing is listed, stopped or deleted before the prompt was
\* answered.
C25_RmRequiresConfirmation ==
    /\ [](rmv.stdin = "none" => rmv.lists = 0 /\ rmv.stops = 0 /\ ~Deleted)
    /\ []((rmv.stdin \notin {"none", "yes"})
            => /\ rmv.pc = "exit" /\ rmv.exit = "aborted"
               /\ rmv.lists = 0 /\ rmv.stops = 0
               /\ vmPath = rmv.before)
    /\ []((rmv.lists > 0 \/ rmv.stops > 0 \/ Deleted)
            => rmv.stdin = "yes" /\ rmv.reply = "yes" /\ rmv.promptErr = "nil")
    /\ [][(rmv.pc = "prompt" /\ rmv' # rmv)
            => /\ vmPath' = vmPath /\ rmv'.stops = 0
               /\ rmv'.pc = "isRunning" <=> rmv'.stdin = "yes"
               /\ rmv'.pc # "isRunning" => rmv'.exit = "aborted"]_vars

\* The operator typed "Yes": the run was aborted as declined, the VM still
\* runs and every file is there.
C25_Witness ==
    /\ rmv.stdin = "Yes" /\ rmv.promptErr = "prompt declined"
    /\ rmv.exit = "aborted"
    /\ vmRunning /\ \A f \in VmFiles : vmPath[f] # 0

C27_BootstrapKeyWrittenOnce ==
    /\ [][key'.writes # key.writes => key.file = "absent"]_vars
    /\ [](key.writes <= 1)
    /\ [](\A p \in Procs :
            /\ key.run[p].ssh \in {"none", "bootstrapInsecurePrivateKey"}
            /\ key.run[p].scp \in {"none", "bootstrapInsecurePrivateKey"})

\* Two runs found no key file; one wrote it, the other then emptied the
\* existing file to write it again.
C27_Witness ==
    \E p, q \in Procs :
       /\ p # q
       /\ key.run[p].statErr = "ENOENT" /\ key.run[q].statErr = "ENOENT"
       /\ key.writes = 2 /\ key.file = "empty"
       /\ key.run[p].pc = "ssh" /\ key.run[q].pc = "Write"

\* C28: whenever runFetch terminates after it created its temporary file,
\* by success or by any failure (get, status, copy, sync or close, digest
\* mismatch, rename), the temporary file of that call exists no more.
C28_TempFileGone ==
    [][\A p \in Procs :
          (/\ proc[p].pc \in {"fetchCreate", "fetchCopy", "fetchInstall", "fetchDeferred"}
           /\ proc'[p].pc \notin {"fetchCreate", "fetchCopy", "fetchInstall", "fetchDeferred"}
           /\ proc'[p].exit # "create")
             => tmpFiles'[proc[p].nanos] = 0]_vars

\* A fetch is over, ended by a failed GET, and a temporary file is in the
\* cache directory, with no process left to remove it.
C28_Witness ==
    /\ \A p \in Procs : proc[p].pc = "idle"
    /\ \E p \in Procs : proc[p].exit = "failed to fetch: get"
    /\ \E n \in Clock : tmpFiles[n] # 0

\* C29: whenever the clone step runs, the unpacked template directory was
\* extracted from an archive of the declared Sha256; after the reference was
\* changed under the same Boxcar.Name, or after a damaged archive was deleted
\* and fetched again, the run that clones has extracted again.
C29_TemplateOfDeclaredArchive ==
    tpl.pc = "vmrunClone"
        => /\ tpl.template = tpl.ref.Sha256
           /\ ~tpl.stale

\* The clone step runs without an extraction in this run, on a template
\* unpacked from an archive of another digest than the declared one, whose
\* archive is in the cache.
C29_Witness ==
    /\ tpl.pc = "vmrunClone"
    /\ ~tpl.extracted
    /\ tpl.marker
    /\ tpl.template \in Sha256s \ {tpl.ref.Sha256}
    /\ tpl.cache[Base(tpl.ref.Url)] = tpl.ref.Sha256

\* C30: there is no mutual exclusion around unpack.  A run that comes to the
\* lock passes it, a run that finds no marker goes on to tar, and tar
\* extracts a sound archive, each whatever the other run is doing.
C30_NoMutualExclusion ==
    \A p \in Procs :
       /\ proc[p].pc = "clonePurge"
             => ENABLED (clonePurge(p) /\ proc'[p].pc = "cloneUnpack")
       /\ (proc[p].pc = "cloneUnpack" /\ ~boxcarUnpackFile)
             => ENABLED (cloneUnpack(p) /\ proc'[p].pc = "cloneTar")
       /\ (proc[p].pc = "cloneTar" /\ archive # 0 /\ Sha256(ArchiveData) = BoxcarSha256)
             => ENABLED (cloneTar(p) /\ proc'[p].extracted)

\* Both runs are in the extraction into the shared template directory.
C30_BothExtracting ==
    /\ ~boxcarUnpackFile
    /\ \A p \in Procs : proc[p].pc = "cloneTar"

\* One run has extracted and written the marker, so that a further run would
\* skip the extraction, while the extraction of the other run is going on.
C30_Witness ==
    \E p, q \in Procs :
       /\ p # q
       /\ boxcarUnpackFile
       /\ proc[p].extracted
       /\ proc[p].pc \in {"cloneValidate", "cloneVmrun"}
       /\ proc[q].pc = "cloneTar"
       /\ ~NeedsUnpack(boxcarUnpackFile)

\* C31: of two concurrent start invocations for one instance name, the
\* instance directory of a run that is past its clone step and before its
\* commit is never deleted by the other run (the descriptor that run cloned
\* is still in place), and at most one of the two runs writes the record.
C31_RunInProgressKeepsDirectory ==
    /\ \A p \in Procs :
          proc[p].pc \in {"cloneKeygen", "cloneStart", "cloneInitialSsh",
                          "cloneScpKey", "cloneBootstrap"}
             => vmPath["vmx"] = proc[p].run
    /\ ~(\A p \in Procs : proc[p].pc = "startReread" /\ (\E i \in DOMAIN proc[p].stages : proc[p].stages[i] = "commit"))

\* One run is past its clone and before its commit; the other run found
\* the descriptor without a record and removed the directory.
C31_Witness ==
    \E p, q \in Procs :
       /\ p # q
       /\ proc[p].pc \in {"cloneKeygen", "cloneStart", "cloneInitialSsh",
                          "cloneScpKey", "cloneBootstrap"}
       /\ proc[q].purged /\ proc[q].vmxAtGuard
       /\ proc[q].pc = "cloneUnpack"
       /\ vmPath["vmx"] = 0

\* C32: the pipeline never deletes the storage tree of an instance whose VM
\* is running: when the guard of runClone removes a partially provisioned
\* directory, the VM that an earlier run powered on is not running.
C32_PurgeOnlyWhenStopped ==
    [][\A p \in Procs :
          (proc[p].pc = "clonePurge" /\ vmPath' # vmPath) => ~vmRunning]_vars

\* A run powered the guest on and failed at its initial ssh; the next start,
\* begun after that run had ended, removed the directory, and the VM is
\* still running.
C32_Witness ==
    \E p, q \in Procs :
       /\ Consecutive(p, q)
       /\ proc[p].exit = "failed bootstrap initial ssh"
       /\ proc[q].purged /\ proc[q].pc = "cloneUnpack"
       /\ vmPath["vmx"] = 0
       /\ vmRunning

\* C33: in runClone, when waitForSsh timed out and the tools query after it
\* succeeded, the address that query returned is the address the run goes on
\* with, to the trust handshake, the bootstrap session and the record.
C33_FallbackAddressUsed ==
    (acq.caller = "runClone" /\ acq.fallback
        /\ acq.exit = "goes on to the bootstrap key")
       => acq.ipAddr = acq.toolsAddr

\* The first query gave no address, the wait on it timed out, the query
\* after the timeout gave the address of the guest, and runClone goes on
\* with the empty one.
C33_Witness ==
    /\ acq.caller = "runClone" /\ acq.fallback
    /\ acq.ok = "false" /\ acq.toolsErr = "nil"
    /\ acq.exit = "goes on to the bootstrap key"
    /\ acq.ipAddr = "" /\ acq.toolsAddr = "ip1"

\* C34: start provisions only when the metadata file is absent.  A run whose
\* first read of the record failed with another error than not-exist has
\* ended with "failed reading config" and has begun no stage: no fetch, no
\* purge, no clone, no power-on; and a run that began a stage had found no
\* file.
C34_UnreadableRecordAborts ==
    \A p \in Procs :
       /\ proc[p].readErr \notin {"none", "nil", "ENOENT"}
             => /\ proc[p].pc = "idle"
                /\ proc[p].exit = "failed reading config"
                /\ proc[p].stages = <<>>
                /\ ~proc[p].purged /\ ~proc[p].ran /\ ~proc[p].extracted
                /\ proc[p].gets = 0
       /\ proc[p].stages # <<>> => proc[p].readErr = "ENOENT"

\* The metadata file is there and a start could not read it.
C34_Witness ==
    \E p \in Procs :
       /\ proc[p].readErr = "EIO"
       /\ vmPath["configFile"] # 0
       /\ proc[p].exit = "failed reading config"

\* C35: stop, suspend, ip-addr, ssh, ssh-config and rm work on committed
\* instances only.  For an instance without a readable record the command
\* has ended with "failed reading config", has invoked neither the
\* hypervisor nor ssh nor the prompt, and has left every file, the record and
\* the VM as they were; whatever a command invoked, it had read the record.
C35_CommandsNeedRecord ==
    /\ (cmd.readErr \notin {"none", "nil"})
          => /\ cmd.pc = "idle"
             /\ cmd.exit = "failed reading config"
             /\ cmd.invoked = {}
             /\ CmdWorld = cmd.before
    /\ (cmd.before # <<>> /\ cmd.before[1]["configFile"] = 0
           /\ cmd.pc # "readInstanceForName")
          => /\ cmd.invoked = {}
             /\ cmd.exit \in {"failed reading config", "failed"}
             /\ CmdWorld = cmd.before
    /\ cmd.invoked # {} => cmd.readErr = "nil"

\* "hobo rm" of a partially provisioned instance whose VM a failed run left
\* running: it has ended, and the directory and the VM are still there.
C35_Witness ==
    /\ cmd.op = "rm"
    /\ cmd.exit = "failed reading config" /\ cmd.readErr = "ENOENT"
    /\ vmPath["vmx"] # 0 /\ vmPath["configFile"] = 0
    /\ vmRunning

C37_MakeBoxcarJoins ==
    /\ [](mk.exit = "Created"
            => /\ mk.tar = "exited" /\ mk.tarStatus = 0
               /\ mk.pigz = "exited" /\ mk.pigzStatus = 0
               /\ mk.copy = "done" /\ mk.copyErr = "nil"
               /\ ~mk.stdin.wOpen /\ mk.stdin.buf = 0
               /\ mk.go = "sent")
    /\ []((mk.pc = "done" /\ (mk.tarStatus # 0 \/ mk.pigzStatus # 0
                                \/ mk.pigz = "not started" \/ mk.tar = "not started"))
            => mk.exit = "failed compressing")
    /\ <>(mk.pc = "done")

\* pigz exited early with tar still writing; the copy failed with a broken
\* pipe, tar therefore too, and the main flow ended with the failure.
C37_Witness ==
    /\ mk.pc = "done" /\ mk.exit = "failed compressing"
    /\ mk.pigz = "exited" /\ mk.pigzStatus = 1
    /\ mk.copyErr = "broken pipe"
    /\ mk.tar = "exited" /\ mk.tarStatus = 1 /\ mk.left > 0

\* C38: the configuration file is the one given with -config-file, else
\* ./.hobo if it exists, else $HOME/.hobo if it exists, else none; a command
\* other than make-boxcar and ls aborts when there is none and reads no other
\* file than the one found; make-boxcar and ls read no configuration file.
C38_ConfigSearchOrder ==
    LET given == cf.configFile
        here == <<".hobo">>
        home == <<Home, ".hobo">>
        found == IF given # <<>> THEN given
                 ELSE IF here \in cf.exists THEN here
                 ELSE IF home \in cf.exists THEN home
                 ELSE <<>> IN
    /\ findConfigFile(given, cf.exists) = found
    /\ cf.pc # "idle" =>
          IF cf.name \in {"make-boxcar", "ls"}
          THEN cf.read = <<>> /\ cf.cfgFname = <<>>
               /\ cf.exit # "unable to find a .hobo file in the search path"
          ELSE IF found = <<>>
          THEN /\ cf.pc = "done" /\ cf.read = <<>>
               /\ cf.exit = "unable to find a .hobo file in the search path"
          ELSE /\ cf.cfgFname = found
               /\ cf.read \in {<<>>, <<found>>}
               /\ cf.pc = "Run" => cf.read = <<found>>

\* No file was given, both ./.hobo and $HOME/.hobo exist, and the command
\* runs having read ./.hobo.
C38_Witness ==
    /\ cf.pc = "Run" /\ cf.name = "start" /\ cf.configFile = <<>>
    /\ {<<".hobo">>, <<Home, ".hobo">>} \subseteq cf.exists
    /\ cf.read = <<<<".hobo">>>>

\* C39: when the configuration file does not set AppConfig.HoboDir, the
\* data directory the command runs with, and so the roots of the vms and of
\* the boxcar cache, are those of the value given with -data-dir.
C39_DataDirFlagSelects ==
    (cf.pc = "Run" /\ ~cf.content.set)
        => /\ ExpandEnv(cf.HoboDir) = ExpandEnv(cf.hoboDir)
           /\ vmsDir(ExpandEnv(cf.HoboDir)) = vmsDir(ExpandEnv(cf.hoboDir))
           /\ boxcarsDir(ExpandEnv(cf.HoboDir)) = boxcarsDir(ExpandEnv(cf.hoboDir))

\* start runs with -data-dir /tmp/d and a configuration file that does not
\* set HoboDir, and its data directory is $HOME/.hobo.d.
C39_Witness ==
    /\ cf.pc = "Run" /\ cf.name = "start" /\ ~cf.content.set
    /\ cf.read # <<>>
    /\ cf.hoboDir = <<"/tmp", "d">>
    /\ cf.HoboDir = <<Home, ".hobo.d">>

====
